---- MODULE Spec2Model ----
(***************************************************************************)
(* Transcript bulk-download pipeline (download_service.py, app_v2.py),     *)
(* its storage adapter (github_storage.py) and the job scheduler           *)
(* (scheduler.py), as one state machine.                                   *)
(*                                                                         *)
(* Names (channel names, folders, titles, video ids) are sequences of      *)
(* one-character strings, so that sanitising and path building are         *)
(* computed as the code computes them.  Time is a tick counter; a calendar *)
(* day is TicksPerDay ticks.                                               *)
(***************************************************************************)
EXTENDS Integers, Sequences, FiniteSets, TLC

\* ---------------------------------------------------------------- bounds
MaxTime == 1          \* the clock stops ticking here
MaxRuns == 2          \* pipeline runs / triggers started in one behaviour
MaxJobs == 1          \* add_scheduled_job calls in one behaviour
TicksPerDay == 2      \* clock ticks per calendar day
MaxLimit == 3         \* largest limit a listing is asked for
MaxDay == 1           \* the last calendar day a midnight leads into

Threads == {1, 2}     \* worker threads (front-end workers, scheduler workers)

Times == 0..(MaxTime + 1)
None == -1            \* Python None where a time or a day is expected

DayOf(t) == t \div TicksPerDay
Midnight(d) == d * TicksPerDay

\* ---------------------------------------------------------------- names
VidA == <<"a">>
VidB == <<"b">>
VidC == <<"x">>
VidD == <<"y">>
VideoPrefix == <<"v", "i", "d", "e", "o", "_">>
DirectDownloads == <<"D", "i", "r">>
UnknownChannelTitle == <<"U", "n", "k", " ", "C", "h">>
UnknownChannelFolder == <<"U", "n", "k", "_", "C", "h">>
JsonExt == <<".", "j", "s", "o", "n">>

BadChars == {"<", ">", ":", "\"", "/", "\\", "|", "?", "*", "@"}
SanitizeLimit == 100

NotBad(c) == c \notin BadChars

StripBad(s) == SelectSeq(s, NotBad)

sanitize_name(name) ==
    LET stripped == StripBad(name)
        under == [i \in 1..Len(stripped) |->
                    IF stripped[i] = " " THEN "_" ELSE stripped[i]]
    IN  SubSeq(under, 1, IF Len(under) < SanitizeLimit THEN Len(under)
                          ELSE SanitizeLimit)

\* ---------------------------------------------------------------- storage
\* A stored file: repository path and JSON content.  The blob sha the hosting
\* API hands out is a hash of the content; it is modelled by the content.
FilePath(channel_name, video_id, title) ==
    [dir  |-> sanitize_name(channel_name),
     file |-> video_id \o <<"_">> \o sanitize_name(title) \o JsonExt]

FileContent(channel_name, video_id, title, ttype, at) ==
    [video_id |-> video_id, title |-> title, channel |-> channel_name,
     transcript_type |-> ttype, downloaded_at |-> at]

StoredIds(st) == {f.content.video_id : f \in st}

\* Variant: a hit needs more than one matching file.
check_transcript_exists_gt1(st, video_id, searchOk) ==
    searchOk /\ Cardinality({f \in st : f.content.video_id = video_id}) > 1

\* check_transcript_exists: the code search answers 200 with the matching
\* files, or anything else (rate limit, network error), which reads as absent.
check_transcript_exists(st, video_id, searchOk) ==
    searchOk /\ video_id \in StoredIds(st)

\* _get_file_sha: the sha of the file at the path, "" when there is none.
NoSha == [video_id |-> <<>>, title |-> <<>>, channel |-> <<>>,
          transcript_type |-> "", downloaded_at |-> None]

get_file_sha(st, path) ==
    IF \E f \in st : f.path = path
    THEN (CHOOSE f \in st : f.path = path).content
    ELSE NoSha

\* get_transcript: the path is built from the channel and the title alone; the
\* content of the file there, none (the value of NoSha) when the request does
\* not answer 200.
GetPath(channel_name, title) ==
    [dir  |-> sanitize_name(channel_name),
     file |-> sanitize_name(title) \o JsonExt]

get_transcript(st, channel_name, title, getOk) ==
    IF getOk THEN get_file_sha(st, GetPath(channel_name, title)) ELSE NoSha

\* str.replace(old, ''): every occurrence of old is dropped, left to right.
RECURSIVE RemoveAll(_, _)
RemoveAll(s, old) ==
    LET hits == {k \in 1..(Len(s) - Len(old) + 1) :
                    SubSeq(s, k, k + Len(old) - 1) = old}
        first == CHOOSE k \in hits : \A j \in hits : k <= j
    IN  IF hits = {} THEN s
        ELSE SubSeq(s, 1, first - 1)
               \o RemoveAll(SubSeq(s, first + Len(old), Len(s)), old)

EndsWith(s, suffix) ==
    Len(s) >= Len(suffix)
    /\ SubSeq(s, Len(s) - Len(suffix) + 1, Len(s)) = suffix

\* list_transcripts(channel_name): one entry for each .json file of the
\* channel's folder: its name without '.json', its path and the channel as it
\* was asked for; no entry when the listing does not answer 200.
list_transcripts(st, channel_name, listOk) ==
    IF ~listOk THEN {}
    ELSE { [name |-> RemoveAll(f.path.file, JsonExt), path |-> f.path,
            channel |-> channel_name] :
           f \in {g \in st : /\ g.path.dir = sanitize_name(channel_name)
                              /\ EndsWith(g.path.file, JsonExt)} }

\* The create-or-update call of the hosting API: it creates a file at a free
\* path when no sha is sent, replaces the file when the sha sent is the current
\* one, and refuses otherwise; putOk = FALSE is any other refusal.
PutAccepted(st, path, sha, putOk) ==
    putOk /\ sha = get_file_sha(st, path)

PutFile(st, path, content) ==
    {f \in st : f.path # path} \cup {[path |-> path, content |-> content]}

\* ---------------------------------------------------------------- upstream
\* The video platform as the resolver sees it: what the channel search finds,
\* the channel's display title and the pages of its uploads playlist, newest
\* first.  An item is [id, title, date] with date the publish tick.
Chan1 == <<"c", "1">>
Chan2 == <<"c", "2">>
Chan3 == <<"c", "3">>
Chan4 == <<"c", "4">>
Channels == {Chan1, Chan2, Chan3, Chan4}

ChannelTitle(query) ==
    IF query = Chan1 THEN <<"C", " ", "1">>
    ELSE IF query = Chan2 THEN <<"C", "2">>
    ELSE IF query = Chan3 THEN <<"C", "3">> ELSE <<"C", "4">>

UploadPages(query) ==
    IF query = Chan1
    THEN << <<[id |-> VidB, title |-> <<"t", "?">>, date |-> 3]>>,
            <<[id |-> VidA, title |-> <<"t">>, date |-> 1]>> >>
    ELSE IF query = Chan2
    THEN << <<[id |-> VidA, title |-> <<"t">>, date |-> 1]>> >>
    ELSE IF query = Chan3
    THEN << <<[id |-> VidB, title |-> <<"t", "?">>, date |-> 3]>> >>
    ELSE << <<[id |-> VidA, title |-> <<"t">>, date |-> 0],
              [id |-> VidB, title |-> <<"t", "?">>, date |-> 3]>>,
            <<[id |-> VidC, title |-> <<"u">>, date |-> 2],
              [id |-> VidD, title |-> <<"w">>, date |-> 3]>> >>

\* `if limit`: None and 0 are both "no limit".
Truthy(limit) == limit # None /\ limit # 0

\* Variant: the date filter keeps an item published exactly at the filter.
RECURSIVE ScanPageAtOrLater(_, _, _, _, _)
ScanPageAtOrLater(items, acc, channel_id, after, limit) ==
    IF items = <<>> THEN [videos |-> acc, full |-> FALSE]
    ELSE LET item == Head(items)
             keep == after = None \/ item.date >= after
             acc2 == IF keep
                     THEN Append(acc, [id |-> item.id, date |-> item.date,
                                       title |-> item.title,
                                       channel_id |-> channel_id])
                     ELSE acc
         IN  IF keep /\ Truthy(limit) /\ Len(acc2) >= limit
             THEN [videos |-> acc2, full |-> TRUE]
             ELSE ScanPageAtOrLater(Tail(items), acc2, channel_id, after, limit)

\* One page of get_video_ids_from_playlist: the items that pass the date
\* filter are appended in page order; the scan stops inside the page as soon as
\* the limit is reached.  after = None is "no filter".
RECURSIVE ScanPage(_, _, _, _, _)
ScanPage(items, acc, channel_id, after, limit) ==
    IF items = <<>> THEN [videos |-> acc, full |-> FALSE]
    ELSE LET item == Head(items)
             keep == after = None \/ item.date > after
             acc2 == IF keep
                     THEN Append(acc, [id |-> item.id, date |-> item.date,
                                       title |-> item.title,
                                       channel_id |-> channel_id])
                     ELSE acc
         IN  IF keep /\ Truthy(limit) /\ Len(acc2) >= limit
             THEN [videos |-> acc2, full |-> TRUE]
             ELSE ScanPage(Tail(items), acc2, channel_id, after, limit)

\* Variant: a page request that fails ends the listing with the items
\* collected so far.
RECURSIVE ListFromKeepsPartial(_, _, _, _, _, _, _)
ListFromKeepsPartial(pages, k, acc, channel_id, after, limit, failAt) ==
    IF k = failAt THEN [ok |-> TRUE, videos |-> acc, requested |-> k]
    ELSE LET scan == ScanPage(pages[k], acc, channel_id, after, limit)
         IN  IF scan.full \/ k >= Len(pages)
             THEN [ok |-> TRUE, videos |-> scan.videos, requested |-> k]
             ELSE ListFromKeepsPartial(pages, k + 1, scan.videos, channel_id,
                                       after, limit, failAt)

\* Variant: the listing follows the continuation token to the last page even
\* when the limit is reached.
RECURSIVE ListFromAllPages(_, _, _, _, _, _, _)
ListFromAllPages(pages, k, acc, channel_id, after, limit, failAt) ==
    IF k = failAt THEN [ok |-> FALSE, videos |-> <<>>, requested |-> k]
    ELSE LET scan == ScanPage(pages[k], acc, channel_id, after, limit)
         IN  IF k >= Len(pages)
             THEN [ok |-> TRUE, videos |-> scan.videos, requested |-> k]
             ELSE ListFromAllPages(pages, k + 1,
                                   IF scan.full THEN acc ELSE scan.videos,
                                   channel_id, after, limit, failAt)

\* get_video_ids_from_playlist from page k on.  failAt is the number of the
\* page request that answers with a non-200 status (0: none does).  The result
\* carries the number of page requests made.
RECURSIVE ListFrom(_, _, _, _, _, _, _)
ListFrom(pages, k, acc, channel_id, after, limit, failAt) ==
    IF k = failAt THEN [ok |-> FALSE, videos |-> <<>>, requested |-> k]
    ELSE LET scan == ScanPage(pages[k], acc, channel_id, after, limit)
         IN  IF scan.full \/ k >= Len(pages)
             THEN [ok |-> TRUE, videos |-> scan.videos, requested |-> k]
             ELSE ListFrom(pages, k + 1, scan.videos, channel_id, after,
                           limit, failAt)

get_video_ids_from_playlist(pages, channel_id, after, limit, failAt) ==
    ListFrom(pages, 1, <<>>, channel_id, after, limit, failAt)

\* ---------------------------------------------------------------- fetcher
\* What the transcript API holds for one video, as the four lookups of
\* download_transcript see it.  list: api.list succeeds; manual, generated,
\* english: the lookup and its fetch succeed; first: "none" (no transcript at
\* all), "ok" or "raise" (the fetch of the first available one fails); empty:
\* the transcript fetched has no entry.
AllFetchEnvs ==
    [list : BOOLEAN, manual : BOOLEAN, generated : BOOLEAN, english : BOOLEAN,
     first : {"none", "ok", "raise"}, empty : BOOLEAN]

\* No situation: the fetcher was not called.
NoEnv == [list |-> FALSE, manual |-> FALSE, generated |-> FALSE,
          english |-> FALSE, first |-> "unset", empty |-> FALSE]

\* The transcript situations the pipeline runs meet: no listing, a manual
\* transcript, an auto-generated one only.
FetchEnvs ==
    { [list |-> FALSE, manual |-> FALSE, generated |-> FALSE, english |-> FALSE,
       first |-> "none", empty |-> FALSE],
      [list |-> TRUE, manual |-> TRUE, generated |-> TRUE, english |-> TRUE,
       first |-> "ok", empty |-> FALSE],
      [list |-> TRUE, manual |-> FALSE, generated |-> TRUE, english |-> TRUE,
       first |-> "ok", empty |-> FALSE] }

\* The tiers of the nested try/except of download_transcript, in the order of
\* the nesting, and the tag each one leaves in transcript_type.
Tiers == <<"manual", "generated", "english", "first">>

TierOk(e, k) ==
    IF k = 1 THEN e.manual
    ELSE IF k = 2 THEN e.generated
    ELSE IF k = 3 THEN e.english ELSE e.first = "ok"

TierTag(k) ==
    IF k = 1 THEN "manual"
    ELSE IF k = 2 THEN "auto-generated"
    ELSE IF k = 3 THEN "unknown" ELSE "auto (language)"

\* Variant: the fallback ends with the third tier.
RECURSIVE TryTiersThree(_, _, _)
TryTiersThree(e, k, tried) ==
    IF k > 3 THEN [tier |-> 0, tried |-> tried]
    ELSE IF TierOk(e, k) THEN [tier |-> k, tried |-> Append(tried, Tiers[k])]
    ELSE TryTiersThree(e, k + 1, Append(tried, Tiers[k]))

\* The nested try/except from tier k on: a tier that raises hands over to the
\* next one; tier the number of the tier that returned (0: none did).
RECURSIVE TryTiers(_, _, _)
TryTiers(e, k, tried) ==
    IF k > Len(Tiers) THEN [tier |-> 0, tried |-> tried]
    ELSE IF TierOk(e, k) THEN [tier |-> k, tried |-> Append(tried, Tiers[k])]
    ELSE TryTiers(e, k + 1, Append(tried, Tiers[k]))

\* download_transcript, lines 217-260: [ok, ttype, tier, tried], tried the
\* calls attempted in order.  A transcript without entries is refused.
FetchTranscript(e) ==
    IF ~e.list
    THEN [ok |-> FALSE, ttype |-> "unknown", tier |-> 0, tried |-> <<"list">>]
    ELSE LET r == TryTiers(e, 1, <<"list">>)
         IN  [ok |-> r.tier # 0 /\ ~e.empty,
              ttype |-> IF r.tier = 0 THEN "unknown" ELSE TierTag(r.tier),
              tier |-> r.tier, tried |-> r.tried]

\* ---------------------------------------------------------------- state
VARIABLES
    now,                \* the clock (datetime.now(), time.time())
    store,              \* the files of the transcript repository
    download_progress,  \* app_v2.download_progress: task id -> progress record
    jobs,               \* JobScheduler.jobs: job id -> job config
    jobs_file,          \* the content of .scheduled_jobs.json
    running,            \* JobScheduler.running
    cron,               \* job ids with a cadence trigger in the scheduler
    catchup,            \* job ids with a pending one-shot catch-up trigger
    th,                 \* the worker threads: position and locals
    nruns,              \* runs and triggers started so far
    njobs,              \* add_scheduled_job calls so far
    lied,               \* history: a search for a stored id did not answer 200
    overlap,            \* history: two workers were active at the same time
    last,               \* history: the front-end or direct run that finished last
    response,           \* the result the last scheduler call returned
    removed             \* history: the job ids whose removal returned success

vars == <<now, store, download_progress, jobs, jobs_file, running, cron,
          catchup, th, nruns, njobs, lied, overlap, last, response,
          removed>>

schedVars == <<jobs, jobs_file, running, cron, catchup, njobs>>

\* A run configuration (the JSON body of /api/download, the dict the
\* scheduler builds): ids = <<>> and channel = <<>> stand for the empty string,
\* after = None for no date, limit = 0 for no limit.
NoConfig == [ids |-> <<>>, channel |-> <<>>, after |-> None, folder |-> <<>>,
             limit |-> 0]

RunConfigs ==
    { [ids |-> <<VidA>>, channel |-> <<>>, after |-> None, folder |-> <<>>, limit |-> 0],
      [ids |-> <<VidA, VidB>>, channel |-> Chan1, after |-> None, folder |-> <<"F">>, limit |-> 0],
      [ids |-> <<>>, channel |-> Chan1, after |-> None, folder |-> <<>>, limit |-> 0],
      [ids |-> <<>>, channel |-> Chan1, after |-> 0, folder |-> <<"F">>, limit |-> 1],
      NoConfig }

\* The configurations of the listing runs: a channel of two pages whose items
\* are not in date order, every date filter and every limit (None: the key is
\* absent, 0: the limit is sent as 0).
AfterDays == {None, 0, 1}

ListingConfigs ==
    { [ids |-> <<>>, channel |-> Chan4, after |-> a, folder |-> <<"F">>,
       limit |-> n] : a \in AfterDays, n \in {None} \cup 0..MaxLimit }

\* What is remembered of the run before a run: its configuration, whether it
\* finished normally having stored every candidate, and the store it left.
NoPred == [cfg |-> NoConfig, all |-> FALSE, store |-> {}]

NoLast == [cfg |-> NoConfig, videos |-> <<>>, success |-> 0, dup |-> 0,
           puts |-> 0, store |-> {}, any |-> FALSE, alone |-> FALSE,
           pred |-> NoPred, resFailed |-> FALSE, httpFailed |-> FALSE]

Idle ==
    [kind |-> "idle", pc |-> "idle", task |-> None, cfg |-> NoConfig,
     folder |-> <<>>, videos |-> <<>>, i |-> 0,
     success |-> 0, failed |-> 0, dup |-> 0, results |-> <<>>,
     ttype |-> "", sha |-> NoSha, at |-> None,
     delays |-> 0, puts |-> 0, alone |-> TRUE, pred |-> NoPred,
     ret |-> "none",
     job |-> 0, channels |-> <<>>, done |-> 0, total |-> 0, after |-> None,
     last_run_date |-> None, reg |-> 0, failedChannels |-> 0,
     pages |-> 0, error |-> "", resFailed |-> FALSE, httpFailed |-> FALSE,
     calls |-> <<>>, env |-> NoEnv, listedDay |-> None]

\* The dict a scheduler call returns: the call, success and the error text.
NoResponse == [op |-> "none", success |-> TRUE, error |-> ""]

Response(op, success, error) == [op |-> op, success |-> success, error |-> error]

FreshProgress ==
    [status |-> "running", current |-> 0, total |-> 0, success |-> 0,
     failed |-> 0, duplicates |-> 0, errors |-> 0, error |-> ""]

Init ==
    /\ now = 0
    /\ store = {}
    /\ download_progress = << >>
    /\ jobs = << >>
    /\ jobs_file = << >>
    /\ running = FALSE
    /\ cron = {}
    /\ catchup = {}
    /\ th = [t \in Threads |-> Idle]
    /\ nruns = 0
    /\ njobs = 0
    /\ lied = FALSE
    /\ overlap = FALSE
    /\ last = NoLast
    /\ response = NoResponse
    /\ removed = {}

Active(t) == th[t].kind # "idle"

\* dict[key] = value
DictSet(d, k, v) == [x \in DOMAIN d \cup {k} |-> IF x = k THEN v ELSE d[x]]
DictDel(d, k) == [x \in DOMAIN d \ {k} |-> d[x]]

Tick ==
    /\ now < MaxTime
    /\ now' = now + 1
    /\ UNCHANGED <<store, download_progress, jobs, jobs_file, running, cron,
                   catchup, th, nruns, njobs, lied, overlap, last>>
    /\ UNCHANGED <<response, removed>>

\* The clock passes the next midnight.
NextDay ==
    /\ DayOf(now) < MaxDay
    /\ now' = Midnight(DayOf(now) + 1)
    /\ UNCHANGED <<store, download_progress, jobs, jobs_file, running, cron,
                   catchup, th, nruns, njobs, lied, overlap, last>>
    /\ UNCHANGED <<response, removed>>

\* ---------------------------------------------------------------- resolution
\* The candidate list of a configuration, as run_download and
\* background_download build it.  The upstream answers are inputs: keyOk (an
\* API key is available), search and uploads ("ok", "http" for a non-200
\* status, "empty" for no items), infoOk (the channel title lookup answers 200
\* with an item; FALSE is a non-200 status, which reads the same as an answer
\* without items) and failAt (the playlist page request that fails, 0 for
\* none).  The result is [ok, videos, folder, pages, error]: pages is the
\* number of playlist page requests made, error the text of the exception.
Candidates(cfg, keyOk, search, infoOk, uploads, failAt) ==
    LET after_date_obj == IF cfg.after = None THEN None ELSE Midnight(cfg.after)
        direct == [k \in 1..Len(cfg.ids) |->
                     [id |-> cfg.ids[k], title |-> VideoPrefix \o cfg.ids[k],
                      channel |-> IF cfg.folder # <<>> THEN cfg.folder
                                  ELSE DirectDownloads]]
        channel_name == IF infoOk THEN ChannelTitle(cfg.channel)
                        ELSE UnknownChannelTitle
        folder_name == IF cfg.folder # <<>> THEN cfg.folder ELSE channel_name
        listed == get_video_ids_from_playlist(UploadPages(cfg.channel),
                      cfg.channel, after_date_obj, cfg.limit, failAt)
        fromChannel == [k \in 1..Len(listed.videos) |->
                          [id |-> listed.videos[k].id,
                           title |-> listed.videos[k].title,
                           channel |-> folder_name]]
        failed == [ok |-> FALSE, videos |-> <<>>, folder |-> <<>>, pages |-> 0,
                   error |-> "No API key"]
    IN  IF ~keyOk THEN failed
        ELSE IF cfg.ids # <<>>
        THEN [ok |-> TRUE, videos |-> direct, folder |-> cfg.folder, pages |-> 0,
              error |-> ""]
        ELSE IF cfg.channel # <<>>
        THEN IF search = "http"
             THEN [failed EXCEPT !.error = "Error searching for channel"]
             ELSE IF search = "empty"
             THEN [failed EXCEPT !.error = "No channel found for query"]
             ELSE IF uploads = "http"
             THEN [failed EXCEPT !.error = "Error fetching channel details"]
             ELSE IF uploads = "empty"
             THEN [failed EXCEPT !.error = "No channel details found"]
             ELSE IF ~listed.ok
             THEN [failed EXCEPT !.pages = listed.requested,
                                 !.error = "Error fetching playlist items"]
             ELSE [ok |-> TRUE, videos |-> fromChannel, folder |-> folder_name,
                   pages |-> listed.requested, error |-> ""]
        ELSE [ok |-> TRUE, videos |-> <<>>, folder |-> cfg.folder, pages |-> 0,
              error |-> ""]

\* The upstream answers a resolution can meet: all fine, or one call failing.
AllFine == [keyOk |-> TRUE, search |-> "ok", infoOk |-> TRUE, uploads |-> "ok",
            failAt |-> 0]

ResolveEnvs ==
    { AllFine,
      [AllFine EXCEPT !.keyOk = FALSE],
      [AllFine EXCEPT !.search = "http"],
      [AllFine EXCEPT !.search = "empty"],
      [AllFine EXCEPT !.infoOk = FALSE],
      [AllFine EXCEPT !.uploads = "http"],
      [AllFine EXCEPT !.uploads = "empty"],
      [AllFine EXCEPT !.failAt = 1],
      [AllFine EXCEPT !.failAt = 2] }

\* The playlist page requests a resolution makes when none of them fails.
PagesNeeded(cfg) ==
    get_video_ids_from_playlist(UploadPages(cfg.channel), cfg.channel,
        IF cfg.after = None THEN None ELSE Midnight(cfg.after),
        cfg.limit, 0).requested

\* History: what the upstream did to a resolution.  ResolveFails: the key is
\* missing, or a call the resolution makes raises (channel search, uploads
\* lookup, a requested playlist page).  HttpFails: a call the resolution makes
\* answers with a non-200 status (the title lookup included).
ResolveFails(cfg, e) ==
    \/ ~e.keyOk
    \/ /\ cfg.ids = <<>> /\ cfg.channel # <<>>
       /\ \/ e.search # "ok"
          \/ e.uploads # "ok"
          \/ e.failAt \in 1..PagesNeeded(cfg)

HttpFails(cfg, e) ==
    /\ e.keyOk /\ cfg.ids = <<>> /\ cfg.channel # <<>>
    /\ \/ e.search = "http"
       \/ /\ e.search = "ok"
          /\ \/ ~e.infoOk
             \/ e.uploads = "http"
             \/ e.uploads = "ok" /\ e.failAt \in 1..PagesNeeded(cfg)

\* Variant: a channel given together with explicit ids is resolved and listed.
ResolveChannelFirst(cfg, e) ==
    Candidates([cfg EXCEPT !.ids = IF cfg.channel # <<>> THEN <<>> ELSE @],
               e.keyOk, e.search, e.infoOk, e.uploads, e.failAt)
        @@ [resFailed |-> ResolveFails(cfg, e), httpFailed |-> HttpFails(cfg, e)]

\* The resolution of a configuration under the upstream answers e, with the
\* two history flags attached to its result.
Resolve(cfg, e) ==
    Candidates(cfg, e.keyOk, e.search, e.infoOk, e.uploads, e.failAt)
        @@ [resFailed |-> ResolveFails(cfg, e), httpFailed |-> HttpFails(cfg, e)]

\* ---------------------------------------------------------------- workers
\* A worker starts (the free thread of lowest number stands for any free
\* thread): it remembers the run that finished last and whether it
\* runs alone; the workers already active no longer run alone.
Spawn(t, rec) ==
    /\ ~Active(t)
    /\ \A u \in Threads : u < t => Active(u)
    /\ nruns < MaxRuns
    /\ nruns' = nruns + 1
    /\ th' = [u \in Threads |->
                IF u = t
                THEN [rec EXCEPT !.alone = \A v \in Threads \ {t} : ~Active(v),
                                 !.pred = [cfg |-> last.cfg,
                                           all |-> last.any /\ last.success = Len(last.videos),
                                           store |-> last.store]]
                ELSE IF Active(u) THEN [th[u] EXCEPT !.alone = FALSE]
                ELSE th[u]]
    /\ overlap' = (overlap \/ \E v \in Threads \ {t} : Active(v))

\* The summary a finished run leaves behind.
Summary(r) ==
    [cfg |-> r.cfg, videos |-> r.videos, success |-> r.success,
     dup |-> r.dup, puts |-> r.puts, store |-> store, any |-> TRUE,
     alone |-> r.alone, pred |-> r.pred, resFailed |-> r.resFailed,
     httpFailed |-> r.httpFailed]

\* app_v2.start_download: the task id is the clock reading; the worker thread
\* is started and the id returned.
start_download(t, cfg) ==
    /\ Spawn(t, [Idle EXCEPT !.kind = "frontend", !.pc = "init",
                             !.task = now, !.cfg = cfg])
    /\ UNCHANGED <<now, store, download_progress, lied, last>>
    /\ UNCHANGED schedVars
    /\ UNCHANGED <<response, removed>>

\* A direct call of DownloadService.run_download(config).
call_run_download(t, cfg) ==
    /\ Spawn(t, [Idle EXCEPT !.kind = "service", !.pc = "call", !.cfg = cfg])
    /\ UNCHANGED <<now, store, download_progress, lied, last>>
    /\ UNCHANGED schedVars
    /\ UNCHANGED <<response, removed>>

\* app_v2.get_progress: the record of the task id, or the not-found marker.
NotFound == [status |-> "not_found"]

get_progress(task_id) ==
    IF task_id \in DOMAIN download_progress THEN download_progress[task_id]
    ELSE NotFound

\* background_download, lines 284-293: the progress record of the task id is
\* (re)created.
BgInit(t) ==
    /\ th[t].kind = "frontend" /\ th[t].pc = "init"
    /\ download_progress' = DictSet(download_progress, th[t].task, FreshProgress)
    /\ th' = [th EXCEPT ![t].pc = "parse"]
    /\ UNCHANGED <<now, store, nruns, lied, overlap, last>>
    /\ UNCHANGED schedVars
    /\ UNCHANGED <<response, removed>>

\* The end of background_download with the given status.
BgEnd(t, status) ==
    /\ download_progress' =
           [download_progress EXCEPT ![th[t].task].status = status]
    /\ th' = [th EXCEPT ![t] = Idle]
    /\ last' = [Summary(th[t]) EXCEPT !.any = status = "completed"]

\* The except branch of background_download, lines 384-386: the status is
\* error and the text of the exception is kept.
BgError(t, r) ==
    /\ download_progress' =
           [download_progress EXCEPT ![th[t].task].status = "error",
                                     ![th[t].task].error = r.error]
    /\ th' = [th EXCEPT ![t] = Idle]
    /\ last' = [Summary(th[t]) EXCEPT !.any = FALSE,
                                      !.resFailed = r.resFailed,
                                      !.httpFailed = r.httpFailed]

\* The candidate list is known: lines 343-346.
BgTotal(t, r) ==
    /\ download_progress' =
           [download_progress EXCEPT ![th[t].task].total = Len(r.videos)]
    /\ th' = [th EXCEPT ![t].videos = r.videos, ![t].folder = r.folder,
                        ![t].pages = r.pages, ![t].resFailed = r.resFailed,
                        ![t].httpFailed = r.httpFailed, ![t].pc = "loop"]
    /\ last' = last

\* background_download, lines 295-328: the key check, then the explicit ids or
\* the announcement of the channel lookup.
BgParse(t) ==
    /\ th[t].kind = "frontend" /\ th[t].pc = "parse"
    /\ \E e \in ResolveEnvs :
         IF ~e.keyOk THEN BgError(t, Resolve(th[t].cfg, e))
         ELSE IF th[t].cfg.ids = <<>> /\ th[t].cfg.channel # <<>>
         THEN /\ download_progress' =
                    [download_progress EXCEPT
                        ![th[t].task].status = "fetching_channel"]
              /\ th' = [th EXCEPT ![t].pc = "fetch"]
              /\ last' = last
         ELSE BgTotal(t, Resolve(th[t].cfg, e))
    /\ UNCHANGED <<now, store, nruns, lied, overlap>>
    /\ UNCHANGED schedVars
    /\ UNCHANGED <<response, removed>>

\* background_download, lines 329-346: channel id, title, uploads list, pages.
BgFetch(t) ==
    /\ th[t].kind = "frontend" /\ th[t].pc = "fetch"
    /\ \E e \in ResolveEnvs :
         LET r == Resolve(th[t].cfg, e)
         IN  /\ e.keyOk
             /\ IF r.ok THEN BgTotal(t, r) ELSE BgError(t, r)
    /\ UNCHANGED <<now, store, nruns, lied, overlap>>
    /\ UNCHANGED schedVars
    /\ UNCHANGED <<response, removed>>

\* Variant: the current index is the number of items already done.
BgLoopZeroBased(t) ==
    /\ th[t].kind = "frontend" /\ th[t].pc = "loop"
    /\ IF th[t].i < Len(th[t].videos)
       THEN /\ download_progress' =
                  [download_progress EXCEPT
                      ![th[t].task].current = th[t].i,
                      ![th[t].task].status = "downloading"]
            /\ th' = [th EXCEPT ![t].pc = "probe"]
            /\ last' = last
       ELSE BgEnd(t, "completed")
    /\ UNCHANGED <<now, store, nruns, lied, overlap>>
    /\ UNCHANGED schedVars
    /\ UNCHANGED <<response, removed>>

\* background_download, lines 349-351 and 382: the head of the loop sets the
\* current index and the status; after the last item the run is completed.
BgLoop(t) ==
    /\ th[t].kind = "frontend" /\ th[t].pc = "loop"
    /\ IF th[t].i < Len(th[t].videos)
       THEN /\ download_progress' =
                  [download_progress EXCEPT
                      ![th[t].task].current = th[t].i + 1,
                      ![th[t].task].status = "downloading"]
            /\ th' = [th EXCEPT ![t].pc = "probe"]
            /\ last' = last
       ELSE BgEnd(t, "completed")
    /\ UNCHANGED <<now, store, nruns, lied, overlap>>
    /\ UNCHANGED schedVars
    /\ UNCHANGED <<response, removed>>

\* DownloadService.run_download, lines 17-63: key, configuration, candidates.
\* An exception is caught at line 114 and returned as the error result.
run_download(t) ==
    /\ th[t].kind \notin {"idle", "frontend"} /\ th[t].pc = "call"
    /\ \E e \in ResolveEnvs :
         LET r == Resolve(th[t].cfg, e)
         IN  th' = [th EXCEPT
                      ![t].videos = r.videos, ![t].folder = r.folder,
                      ![t].i = 0, ![t].success = 0, ![t].failed = 0,
                      ![t].dup = 0, ![t].results = <<>>, ![t].delays = 0,
                      ![t].puts = 0,
                      ![t].pages = r.pages, ![t].error = r.error,
                      ![t].resFailed = r.resFailed,
                      ![t].httpFailed = r.httpFailed,
                      ![t].listedDay = IF th[t].kind # "service" /\ r.ok
                                          /\ @ = None
                                       THEN DayOf(now) ELSE @,
                      ![t].ret = IF r.ok THEN "success" ELSE "error",
                      ![t].pc = IF r.ok /\ r.videos # <<>> THEN "probe"
                                ELSE "return"]
    /\ UNCHANGED <<now, store, download_progress, nruns, lied, overlap, last>>
    /\ UNCHANGED schedVars
    /\ UNCHANGED <<response, removed>>

\* DownloadService.get_video_ids_from_playlist called with the date filter and
\* the limit of cfg as run_download passes them (lines 31-38, 58): the caller
\* holds the list and the number of page requests made, or the exception.
call_get_video_ids(t, cfg, failAt) ==
    /\ LET r == get_video_ids_from_playlist(UploadPages(cfg.channel),
                    cfg.channel,
                    IF cfg.after = None THEN None ELSE Midnight(cfg.after),
                    cfg.limit, failAt)
       IN  Spawn(t, [Idle EXCEPT !.kind = "listing", !.pc = "return",
                                 !.cfg = cfg, !.videos = r.videos,
                                 !.pages = r.requested,
                                 !.ret = IF r.ok THEN "success" ELSE "error"])
    /\ UNCHANGED <<now, store, download_progress, lied, last>>
    /\ UNCHANGED schedVars
    /\ UNCHANGED <<response, removed>>

\* The caller of the listing drops its result.
ListingReturn(t) ==
    /\ th[t].kind = "listing" /\ th[t].pc = "return"
    /\ th' = [th EXCEPT ![t] = Idle]
    /\ UNCHANGED <<now, store, download_progress, nruns, lied, overlap, last>>
    /\ UNCHANGED schedVars
    /\ UNCHANGED <<response, removed>>

\* A direct call of GitHubStorage.save_transcript(channel_name, video_id,
\* title, text, metadata) with the metadata of a manual transcript.
call_save_transcript(t, channel_name, video_id, title) ==
    /\ Spawn(t, [Idle EXCEPT !.kind = "storage", !.pc = "save_check",
                             !.videos = <<[id |-> video_id, title |-> title,
                                          channel |-> channel_name]>>,
                             !.ttype = "manual"])
    /\ UNCHANGED <<now, store, download_progress, lied, last>>
    /\ UNCHANGED schedVars
    /\ UNCHANGED <<response, removed>>

\* The caller of save_transcript drops its result.
StorageReturn(t) ==
    /\ th[t].kind = "storage" /\ th[t].pc = "return"
    /\ th' = [th EXCEPT ![t] = Idle]
    /\ UNCHANGED <<now, store, download_progress, nruns, lied, overlap, last>>
    /\ UNCHANGED schedVars
    /\ UNCHANGED <<response, removed>>

\* A direct call returns its summary to the caller.
ServiceReturn(t) ==
    /\ th[t].kind = "service" /\ th[t].pc = "return"
    /\ th' = [th EXCEPT ![t] = Idle]
    /\ last' = [Summary(th[t]) EXCEPT !.any = th[t].ret = "success"]
    /\ UNCHANGED <<now, store, download_progress, nruns, lied, overlap>>
    /\ UNCHANGED schedVars
    /\ UNCHANGED <<response, removed>>

\* ---------------------------------------------------------------- items
Item(t) == th[t].videos[th[t].i + 1]

One(b) == IF b THEN 1 ELSE 0

\* Variant: the delay is slept after every item, the last one included.
RecordDelayAfterLast(t, res, put, calls, env) ==
    LET r == th[t]
        more == r.i + 1 < Len(r.videos)
    IN  /\ th' = [th EXCEPT ![t] =
                    [r EXCEPT !.i = @ + 1,
                              !.success = @ + One(res = "success"),
                              !.failed = @ + One(res # "success"),
                              !.dup = @ + One(res = "duplicate"),
                              !.results = Append(@, res),
                              !.delays = @ + 1,
                              !.puts = @ + One(put),
                              !.calls = IF r.kind = "service" THEN calls ELSE @,
                              !.env = IF r.kind = "service" THEN env ELSE @,
                              !.pc = IF r.kind = "frontend" THEN "loop"
                                     ELSE IF more THEN "probe" ELSE "return"]]
        /\ download_progress' =
             IF r.kind = "frontend"
             THEN [download_progress EXCEPT ![r.task] =
                     [@ EXCEPT !.success = @ + One(res = "success"),
                               !.failed = @ + One(res # "success"),
                               !.duplicates = @ + One(res = "duplicate"),
                               !.errors = @ + One(res = "error")]]
             ELSE download_progress

\* Variant: a duplicate is counted as a duplicate only, not as a failure.
RecordDuplicateApart(t, res, put, calls, env) ==
    LET r == th[t]
        more == r.i + 1 < Len(r.videos)
    IN  /\ th' = [th EXCEPT ![t] =
                    [r EXCEPT !.i = @ + 1,
                              !.success = @ + One(res = "success"),
                              !.failed = @ + One(res = "error"),
                              !.dup = @ + One(res = "duplicate"),
                              !.results = Append(@, res),
                              !.delays = @ + One(more),
                              !.puts = @ + One(put),
                              !.calls = IF r.kind = "service" THEN calls ELSE @,
                              !.env = IF r.kind = "service" THEN env ELSE @,
                              !.pc = IF r.kind = "frontend" THEN "loop"
                                     ELSE IF more THEN "probe" ELSE "return"]]
        /\ download_progress' =
             IF r.kind = "frontend"
             THEN [download_progress EXCEPT ![r.task] =
                     [@ EXCEPT !.success = @ + One(res = "success"),
                               !.failed = @ + One(res = "error"),
                               !.duplicates = @ + One(res = "duplicate"),
                               !.errors = @ + One(res = "error")]]
             ELSE download_progress

\* Variant: a direct run returns at the first item that fails.
RecordAbortOnError(t, res, put, calls, env) ==
    LET r == th[t]
        more == r.i + 1 < Len(r.videos) /\ res # "error"
    IN  /\ th' = [th EXCEPT ![t] =
                    [r EXCEPT !.i = @ + 1,
                              !.success = @ + One(res = "success"),
                              !.failed = @ + One(res # "success"),
                              !.dup = @ + One(res = "duplicate"),
                              !.results = Append(@, res),
                              !.delays = @ + One(more),
                              !.puts = @ + One(put),
                              !.calls = IF r.kind = "service" THEN calls ELSE @,
                              !.env = IF r.kind = "service" THEN env ELSE @,
                              !.pc = IF r.kind = "frontend" THEN "loop"
                                     ELSE IF more THEN "probe" ELSE "return"]]
        /\ download_progress' =
             IF r.kind = "frontend"
             THEN [download_progress EXCEPT ![r.task] =
                     [@ EXCEPT !.success = @ + One(res = "success"),
                               !.failed = @ + One(res # "success"),
                               !.duplicates = @ + One(res = "duplicate"),
                               !.errors = @ + One(res = "error")]]
             ELSE download_progress

\* The outcome of the current item is counted (run_download lines 87-101,
\* background_download lines 361-380) and the delay before the next item is
\* slept.  res is "success", "duplicate" (a failure whose message says
\* duplicate) or "error" (any other failure).  calls and env are history,
\* kept for direct runs: the calls made for the latest item and the
\* transcript situation its fetch met.
Record(t, res, put, calls, env) ==
    LET r == th[t]
        more == r.i + 1 < Len(r.videos)
    IN  /\ th' = [th EXCEPT ![t] =
                    [r EXCEPT !.i = @ + 1,
                              !.success = @ + One(res = "success"),
                              !.failed = @ + One(res # "success"),
                              !.dup = @ + One(res = "duplicate"),
                              !.results = Append(@, res),
                              !.delays = @ + One(more),
                              !.puts = @ + One(put),
                              !.calls = IF r.kind = "service" THEN calls ELSE @,
                              !.env = IF r.kind = "service" THEN env ELSE @,
                              !.pc = IF r.kind = "frontend" THEN "loop"
                                     ELSE IF more THEN "probe" ELSE "return"]]
        /\ download_progress' =
             IF r.kind = "frontend"
             THEN [download_progress EXCEPT ![r.task] =
                     [@ EXCEPT !.success = @ + One(res = "success"),
                               !.failed = @ + One(res # "success"),
                               !.duplicates = @ + One(res = "duplicate"),
                               !.errors = @ + One(res = "error")]]
             ELSE download_progress

\* Variant: an item the probe finds present goes on to save.
ProbeWithNoSkip(t, envs) ==
    /\ Active(t) /\ th[t].pc = "probe"
    /\ \E searchOk \in BOOLEAN, e \in envs :
         LET exists == check_transcript_exists(store, Item(t).id, searchOk)
             f == FetchTranscript(e)
         IN  /\ lied' = (lied \/ (~searchOk /\ Item(t).id \in StoredIds(store)))
             /\ IF exists
                THEN /\ th' = [th EXCEPT
                              ![t].pc = "save_check",
                              ![t].calls = IF th[t].kind = "service"
                                           THEN <<"probe">> ELSE @,
                              ![t].env = IF th[t].kind = "service"
                                         THEN NoEnv ELSE @]
                     /\ download_progress' = download_progress
                ELSE IF ~f.ok
                THEN Record(t, "error", FALSE, <<"probe">> \o f.tried, e)
                ELSE /\ th' = [th EXCEPT
                              ![t].pc = "save_check",
                              ![t].ttype = f.ttype,
                              ![t].calls = IF th[t].kind = "service"
                                           THEN <<"probe">> \o f.tried ELSE @,
                              ![t].env = IF th[t].kind = "service" THEN e ELSE @]
                     /\ download_progress' = download_progress
    /\ UNCHANGED <<now, store, nruns, overlap, last>>
    /\ UNCHANGED schedVars
    /\ UNCHANGED <<response, removed>>

\* download_transcript, lines 212-260: the existence probe, then the
\* transcript lookups.
ProbeWith(t, envs) ==
    /\ Active(t) /\ th[t].pc = "probe"
    /\ \E searchOk \in BOOLEAN, e \in envs :
         LET exists == check_transcript_exists(store, Item(t).id, searchOk)
             f == FetchTranscript(e)
         IN  /\ lied' = (lied \/ (~searchOk /\ Item(t).id \in StoredIds(store)))
             /\ IF exists
                THEN Record(t, "duplicate", FALSE, <<"probe">>, NoEnv)
                ELSE IF ~f.ok
                THEN Record(t, "error", FALSE, <<"probe">> \o f.tried, e)
                ELSE /\ th' = [th EXCEPT
                              ![t].pc = "save_check",
                              ![t].ttype = f.ttype,
                              ![t].calls = IF th[t].kind = "service"
                                           THEN <<"probe">> \o f.tried ELSE @,
                              ![t].env = IF th[t].kind = "service" THEN e ELSE @]
                     /\ download_progress' = download_progress
    /\ UNCHANGED <<now, store, nruns, overlap, last>>
    /\ UNCHANGED schedVars
    /\ UNCHANGED <<response, removed>>

Probe(t) == ProbeWith(t, FetchEnvs)

\* The same step under every situation of the transcript API.
ProbeAny(t) == ProbeWith(t, AllFetchEnvs)

\* Variant: a duplicate reported by save is an ordinary failure.
SaveCheckDuplicateAsError(t) ==
    /\ Active(t) /\ th[t].pc = "save_check"
    /\ \E searchOk \in BOOLEAN :
         LET exists == check_transcript_exists(store, Item(t).id, searchOk)
         IN  /\ lied' = (lied \/ (~searchOk /\ Item(t).id \in StoredIds(store)))
             /\ IF exists
                THEN Record(t, "error", FALSE,
                            Append(th[t].calls, "save"), th[t].env)
                ELSE /\ th' = [th EXCEPT
                              ![t].pc = "save_sha", ![t].at = now,
                              ![t].calls = IF th[t].kind = "service"
                                           THEN Append(@, "save") ELSE @]
                     /\ download_progress' = download_progress
    /\ UNCHANGED <<now, store, nruns, overlap, last>>
    /\ UNCHANGED schedVars
    /\ UNCHANGED <<response, removed>>

\* save_transcript, lines 46-76: the duplicate check, then the path and the
\* content with its download time.
SaveCheck(t) ==
    /\ Active(t) /\ th[t].pc = "save_check"
    /\ \E searchOk \in BOOLEAN :
         LET exists == check_transcript_exists(store, Item(t).id, searchOk)
         IN  /\ lied' = (lied \/ (~searchOk /\ Item(t).id \in StoredIds(store)))
             /\ IF exists
                THEN Record(t, "duplicate", FALSE,
                            Append(th[t].calls, "save"), th[t].env)
                ELSE /\ th' = [th EXCEPT
                              ![t].pc = "save_sha", ![t].at = now,
                              ![t].calls = IF th[t].kind = "service"
                                           THEN Append(@, "save") ELSE @]
                     /\ download_progress' = download_progress
    /\ UNCHANGED <<now, store, nruns, overlap, last>>
    /\ UNCHANGED schedVars
    /\ UNCHANGED <<response, removed>>

SavePath(t) == FilePath(Item(t).channel, Item(t).id, Item(t).title)

\* save_transcript, line 79: the sha of the file at the path, none when the
\* request does not answer 200.
SaveSha(t) ==
    /\ Active(t) /\ th[t].pc = "save_sha"
    /\ \E shaOk \in BOOLEAN :
         th' = [th EXCEPT ![t].pc = "save_put",
                          ![t].sha = IF shaOk
                                     THEN get_file_sha(store, SavePath(t))
                                     ELSE NoSha]
    /\ UNCHANGED <<now, store, download_progress, nruns, lied, overlap, last>>
    /\ UNCHANGED schedVars
    /\ UNCHANGED <<response, removed>>

\* Variant: the write is refused as a duplicate when the video has been
\* stored since the probes.
SavePutDetectsConflict(t) ==
    /\ Active(t) /\ th[t].pc = "save_put"
    /\ \E putOk \in BOOLEAN :
         IF Item(t).id \in StoredIds(store)
         THEN /\ store' = store
              /\ Record(t, "duplicate", TRUE, th[t].calls, th[t].env)
         ELSE IF PutAccepted(store, SavePath(t), th[t].sha, putOk)
         THEN /\ store' = PutFile(store, SavePath(t),
                              FileContent(Item(t).channel, Item(t).id,
                                          Item(t).title, th[t].ttype, th[t].at))
              /\ Record(t, "success", TRUE, th[t].calls, th[t].env)
         ELSE /\ store' = store
              /\ Record(t, "error", TRUE, th[t].calls, th[t].env)
    /\ UNCHANGED <<now, nruns, lied, overlap, last>>
    /\ UNCHANGED schedVars
    /\ UNCHANGED <<response, removed>>

\* save_transcript, lines 93-109, and download_transcript, lines 285-294: the
\* write, and the outcome of the item.
SavePut(t) ==
    /\ Active(t) /\ th[t].pc = "save_put"
    /\ \E putOk \in BOOLEAN :
         IF PutAccepted(store, SavePath(t), th[t].sha, putOk)
         THEN /\ store' = PutFile(store, SavePath(t),
                              FileContent(Item(t).channel, Item(t).id,
                                          Item(t).title, th[t].ttype, th[t].at))
              /\ Record(t, "success", TRUE, th[t].calls, th[t].env)
         ELSE /\ store' = store
              /\ Record(t, "error", TRUE, th[t].calls, th[t].env)
    /\ UNCHANGED <<now, nruns, lied, overlap, last>>
    /\ UNCHANGED schedVars
    /\ UNCHANGED <<response, removed>>

\* ---------------------------------------------------------------- scheduler
Frequencies == {"daily", "weekly", "monthly"}

\* _get_cron_trigger: the cron fields of the cadence, or the ValueError.
get_cron_trigger(frequency) ==
    IF frequency = "daily" THEN "hour=0,minute=0"
    ELSE IF frequency = "weekly" THEN "day_of_week=0,hour=0,minute=0"
    ELSE IF frequency = "monthly" THEN "day=1,hour=0,minute=0"
    ELSE "ValueError"

\* _save_jobs: the whole mapping is written; a failed write is only printed.
save_jobs(js, saveOk) == IF saveOk THEN js ELSE jobs_file

\* Variant: a job whose run completed is made active again.
update_job_status_reactivates(js, job_id, status, error) ==
    IF job_id \in DOMAIN js
    THEN [js EXCEPT ![job_id].status = IF status = "completed" THEN "active"
                                       ELSE status,
                    ![job_id].last_run = now,
                    ![job_id].last_error = error]
    ELSE js

\* update_job_status: status, last_run and last_error of a job that is still
\* in the mapping.
update_job_status(js, job_id, status, error) ==
    IF job_id \in DOMAIN js
    THEN [js EXCEPT ![job_id].status = status,
                    ![job_id].last_run = now,
                    ![job_id].last_error = error]
    ELSE js

JobInputs ==
    { [channels |-> <<Chan2, Chan3>>, frequency |-> "daily",
       start_date |-> 1, folder_prefix |-> <<>>],
      [channels |-> <<Chan2>>, frequency |-> "weekly",
       start_date |-> None, folder_prefix |-> <<"p">>],
      [channels |-> <<Chan2>>, frequency |-> "hourly",
       start_date |-> 0, folder_prefix |-> <<>>] }

\* add_scheduled_job: the job is put into the mapping and saved, then the
\* cadence trigger is added when the scheduler runs, then the catch-up trigger.
\* start_date = None stands for the empty string of the request.
add_scheduled_job(in, saveOk) ==
    /\ njobs < MaxJobs
    /\ njobs' = njobs + 1
    /\ LET job_id == njobs + 1
           job_config ==
               [channels |-> in.channels, frequency |-> in.frequency,
                start_date |-> IF in.start_date # None THEN in.start_date
                               ELSE DayOf(now),
                folder_prefix |-> in.folder_prefix, created_at |-> now,
                last_run |-> None, status |-> "active",
                total_downloads |-> 0, last_error |-> ""]
           raised == running /\ get_cron_trigger(in.frequency) = "ValueError"
       IN  /\ jobs' = DictSet(jobs, job_id, job_config)
           /\ jobs_file' = save_jobs(jobs', saveOk)
           /\ cron' = IF running /\ ~raised THEN cron \cup {job_id} ELSE cron
           /\ catchup' = IF raised THEN catchup ELSE catchup \cup {job_id}
           /\ response' = IF raised
                          THEN Response("add", FALSE, "Unsupported frequency")
                          ELSE Response("add", TRUE, "")
    /\ UNCHANGED <<now, store, download_progress, running, th, nruns, lied,
                   overlap, last, removed>>

\* remove_scheduled_job: a job in the mapping loses its cadence trigger and
\* its entry, and the mapping is saved; any other id is answered "not found".
remove_scheduled_job(job_id, saveOk) ==
    /\ IF job_id \in DOMAIN jobs
       THEN /\ cron' = cron \ {job_id}
            /\ jobs' = DictDel(jobs, job_id)
            /\ jobs_file' = save_jobs(jobs', saveOk)
            /\ response' = Response("remove", TRUE, "")
            /\ removed' = removed \cup {job_id}
       ELSE /\ UNCHANGED <<cron, jobs, jobs_file, removed>>
            /\ response' = Response("remove", FALSE, "Job not found")
    /\ UNCHANGED <<now, store, download_progress, running, catchup, th, nruns,
                   njobs, lied, overlap, last>>

\* _restore_jobs: the active jobs get their cadence trigger, in the order of
\* the mapping, up to the first one whose frequency raises.
RestoreRaises(j) ==
    jobs[j].status = "active" /\ get_cron_trigger(jobs[j].frequency) = "ValueError"

restore_jobs ==
    {j \in DOMAIN jobs :
        /\ jobs[j].status = "active"
        /\ \A k \in DOMAIN jobs : k <= j => ~RestoreRaises(k)}

start ==
    /\ ~running
    /\ running' = TRUE
    /\ cron' = cron \cup restore_jobs
    /\ UNCHANGED <<now, store, download_progress, jobs, jobs_file, catchup, th,
                   nruns, njobs, lied, overlap, last>>
    /\ UNCHANGED <<response, removed>>

stop ==
    /\ running
    /\ running' = FALSE
    /\ UNCHANGED <<now, store, download_progress, jobs, jobs_file, cron,
                   catchup, th, nruns, njobs, lied, overlap, last>>
    /\ UNCHANGED <<response, removed>>

\* _load_jobs: the mapping the file holds; the empty mapping when there is no
\* file or it cannot be read or parsed.  Every value of a job is a JSON value
\* and every key a string, so what json.load returns is what json.dump wrote.
load_jobs(file, readOk) == IF readOk THEN file ELSE << >>

\* The process starts again: JobScheduler.__init__ builds a new scheduler (no
\* trigger, not running) and loads the mapping from the file; the progress
\* dict of the front end starts empty.
construct(readOk) ==
    /\ \A t \in Threads : ~Active(t)
    /\ jobs' = load_jobs(jobs_file, readOk)
    /\ running' = FALSE
    /\ cron' = {}
    /\ catchup' = {}
    /\ download_progress' = << >>
    /\ response' = NoResponse
    /\ UNCHANGED <<now, store, jobs_file, th, nruns, njobs, lied, overlap,
                   last, removed>>

\* ---------------------------------------------------------------- triggers
TriggerKinds == {"cadence", "catchup", "manual"}

\* The download_config the handlers build for one channel.
ChannelConfig(channel, folder_prefix, after_date) ==
    [ids |-> <<>>, channel |-> channel, after |-> after_date,
     folder |-> IF folder_prefix # <<>> THEN folder_prefix \o channel
                ELSE channel,
     limit |-> 0]

\* Variant: the window always starts at start_date.
ScheduledAfterDateStartOnly(job_config) == job_config.start_date

\* The date filter of _run_scheduled_download, lines 189-195: the day of
\* last_run when it is set, start_date otherwise.
ScheduledAfterDate(job_config) ==
    IF job_config.last_run # None THEN DayOf(job_config.last_run)
    ELSE job_config.start_date

\* Variant: the catch-up run starts its window at the last run, like a
\* cadence run.
CatchupAfterDateSinceLastRun(job_config) ==
    IF job_config.last_run # None THEN DayOf(job_config.last_run)
    ELSE job_config.start_date

\* The date filter of _run_catchup_download, line 237.
CatchupAfterDate(job_config) == job_config.start_date

\* The scheduler fires the cadence trigger of a job.
FireCadence(t, job_id) ==
    /\ running /\ job_id \in cron
    /\ Spawn(t, [Idle EXCEPT !.kind = "cadence", !.pc = "t_begin",
                             !.job = job_id])
    /\ UNCHANGED <<now, store, download_progress, lied, last>>
    /\ UNCHANGED schedVars
    /\ UNCHANGED <<response, removed>>

\* The scheduler fires the one-shot catch-up trigger of a job.
FireCatchup(t, job_id) ==
    /\ running /\ job_id \in catchup
    /\ catchup' = catchup \ {job_id}
    /\ Spawn(t, [Idle EXCEPT !.kind = "catchup", !.pc = "t_begin",
                             !.job = job_id])
    /\ UNCHANGED <<now, store, download_progress, lied, last>>
    /\ UNCHANGED <<jobs, jobs_file, running, cron, njobs>>
    /\ UNCHANGED <<response, removed>>

\* app_v2.run_job_now: the job is in the listing; a thread is started on
\* _run_scheduled_download.
run_job_now(t, job_id) ==
    /\ job_id \in DOMAIN jobs
    /\ Spawn(t, [Idle EXCEPT !.kind = "manual", !.pc = "t_begin",
                             !.job = job_id])
    /\ response' = Response("run", TRUE, "")
    /\ UNCHANGED <<now, store, download_progress, lied, last, removed>>
    /\ UNCHANGED schedVars

\* app_v2.run_job_now for an id that is not in the listing: 404.
run_job_now_missing(job_id) ==
    /\ job_id \notin DOMAIN jobs
    /\ response' = Response("run", FALSE, "Job not found")
    /\ UNCHANGED <<now, store, download_progress, th, nruns, lied, overlap,
                   last, removed>>
    /\ UNCHANGED schedVars

\* The head of _run_scheduled_download and _run_catchup_download: return when
\* the job is gone, else compute the date filter and call run_download for the
\* first channel.
TBegin(t) ==
    /\ th[t].kind \in TriggerKinds /\ th[t].pc = "t_begin"
    /\ IF th[t].job \notin DOMAIN jobs
       THEN th' = [th EXCEPT ![t] = Idle]
       ELSE LET job_config == jobs[th[t].job]
                after_date == IF th[t].kind = "catchup"
                              THEN CatchupAfterDate(job_config)
                              ELSE ScheduledAfterDate(job_config)
            IN  th' = [th EXCEPT
                         ![t].channels = job_config.channels,
                         ![t].after = after_date,
                         ![t].last_run_date = job_config.last_run,
                         ![t].done = 0, ![t].total = 0,
                         ![t].cfg = ChannelConfig(job_config.channels[1],
                                        job_config.folder_prefix, after_date),
                         ![t].pc = "call"]
    /\ UNCHANGED <<now, store, download_progress, nruns, lied, overlap, last>>
    /\ UNCHANGED schedVars
    /\ UNCHANGED <<response, removed>>

\* The same head where remove_scheduled_job runs beside the handlers, taken
\* statement by statement.  Lines 181-182 and 229-230: return when the job is
\* gone.
TCheck(t) ==
    /\ th[t].kind \in TriggerKinds /\ th[t].pc = "t_begin"
    /\ th' = IF th[t].job \notin DOMAIN jobs
             THEN [th EXCEPT ![t] = Idle]
             ELSE [th EXCEPT ![t].pc = "t_config"]
    /\ UNCHANGED <<now, store, download_progress, nruns, lied, overlap, last>>
    /\ UNCHANGED schedVars
    /\ UNCHANGED <<response, removed>>

\* Lines 184 and 232, `job_config = self.jobs[job_id]`, outside the try: a
\* KeyError leaves the handler when the job was removed since the test; else
\* the date filter and the call of run_download for the first channel.
TConfig(t) ==
    /\ th[t].kind \in TriggerKinds /\ th[t].pc = "t_config"
    /\ IF th[t].job \notin DOMAIN jobs
       THEN th' = [th EXCEPT ![t].pc = "t_raised"]
       ELSE LET job_config == jobs[th[t].job]
                after_date == IF th[t].kind = "catchup"
                              THEN CatchupAfterDate(job_config)
                              ELSE ScheduledAfterDate(job_config)
            IN  th' = [th EXCEPT
                         ![t].channels = job_config.channels,
                         ![t].after = after_date,
                         ![t].last_run_date = job_config.last_run,
                         ![t].done = 0, ![t].total = 0,
                         ![t].cfg = ChannelConfig(job_config.channels[1],
                                        job_config.folder_prefix, after_date),
                         ![t].pc = "call"]
    /\ UNCHANGED <<now, store, download_progress, nruns, lied, overlap, last>>
    /\ UNCHANGED schedVars
    /\ UNCHANGED <<response, removed>>

\* The exception that left the handler ends in its caller (the executor of
\* the scheduler, the thread of run_job_now).
TRaised(t) ==
    /\ th[t].kind \in TriggerKinds /\ th[t].pc = "t_raised"
    /\ th' = [th EXCEPT ![t] = Idle]
    /\ UNCHANGED <<now, store, download_progress, nruns, lied, overlap, last>>
    /\ UNCHANGED schedVars
    /\ UNCHANGED <<response, removed>>

\* Variant: the sum takes total_videos, the candidates of the channel, in
\* place of the downloads.
TReturnCountsCandidates(t) ==
    /\ th[t].kind \in TriggerKinds /\ th[t].pc = "return"
    /\ LET r == th[t]
           more == r.done + 1 < Len(r.channels)
           prefix == IF r.cfg.folder = r.cfg.channel THEN <<>>
                     ELSE SubSeq(r.cfg.folder, 1,
                                 Len(r.cfg.folder) - Len(r.cfg.channel))
       IN  /\ th' = [th EXCEPT ![t] =
                [r EXCEPT
                   !.total = @ + (IF r.ret = "success" THEN Len(r.videos)
                                  ELSE 0),
                   !.failedChannels = @ + One(r.ret # "success"),
                   !.done = @ + 1,
                   !.cfg = IF more
                           THEN ChannelConfig(r.channels[r.done + 2], prefix,
                                              r.after)
                           ELSE @,
                   !.pc = IF more THEN "call" ELSE "t_read"]]
    /\ UNCHANGED <<now, store, download_progress, nruns, lied, overlap, last>>
    /\ UNCHANGED schedVars
    /\ UNCHANGED <<response, removed>>

\* run_download has returned to the handler: a success result adds its
\* total_downloads, any other result adds nothing; then the next channel, or
\* the job's statistics after the last one.
TReturn(t) ==
    /\ th[t].kind \in TriggerKinds /\ th[t].pc = "return"
    /\ LET r == th[t]
           more == r.done + 1 < Len(r.channels)
           prefix == IF r.cfg.folder = r.cfg.channel THEN <<>>
                     ELSE SubSeq(r.cfg.folder, 1,
                                 Len(r.cfg.folder) - Len(r.cfg.channel))
       IN  /\ th' = [th EXCEPT ![t] =
                [r EXCEPT
                   !.total = @ + (IF r.ret = "success" THEN r.success ELSE 0),
                   !.failedChannels = @ + One(r.ret # "success"),
                   !.done = @ + 1,
                   !.cfg = IF more
                           THEN ChannelConfig(r.channels[r.done + 2], prefix,
                                              r.after)
                           ELSE @,
                   !.pc = IF more THEN "call" ELSE "t_read"]]
    /\ UNCHANGED <<now, store, download_progress, nruns, lied, overlap, last>>
    /\ UNCHANGED schedVars
    /\ UNCHANGED <<response, removed>>

\* `self.jobs[job_id]['total_downloads'] += total_downloads`, the read: a
\* KeyError when the job has been removed.
TRead(t) ==
    /\ th[t].kind \in TriggerKinds /\ th[t].pc = "t_read"
    /\ th' = IF th[t].job \in DOMAIN jobs
             THEN [th EXCEPT ![t].reg = jobs[th[t].job].total_downloads,
                             ![t].pc = "t_write"]
             ELSE [th EXCEPT ![t].pc = "t_except"]
    /\ UNCHANGED <<now, store, download_progress, nruns, lied, overlap, last>>
    /\ UNCHANGED schedVars
    /\ UNCHANGED <<response, removed>>

\* ... and the write of the sum, lost when the job was removed in between.
TWrite(t) ==
    /\ th[t].kind \in TriggerKinds /\ th[t].pc = "t_write"
    /\ jobs' = IF th[t].job \in DOMAIN jobs
               THEN [jobs EXCEPT ![th[t].job].total_downloads =
                                     th[t].reg + th[t].total]
               ELSE jobs
    /\ th' = [th EXCEPT ![t].pc = "t_update"]
    /\ UNCHANGED <<now, store, download_progress, jobs_file, running, cron,
                   catchup, nruns, njobs, lied, overlap, last>>
    /\ UNCHANGED <<response, removed>>

\* update_job_status(job_id, 'completed') and the return of the handler.
TUpdate(t, saveOk) ==
    /\ th[t].kind \in TriggerKinds /\ th[t].pc = "t_update"
    /\ jobs' = update_job_status(jobs, th[t].job, "completed", "")
    /\ jobs_file' = IF th[t].job \in DOMAIN jobs
                    THEN save_jobs(jobs', saveOk) ELSE jobs_file
    /\ th' = [th EXCEPT ![t] = Idle]
    /\ UNCHANGED <<now, store, download_progress, running, cron, catchup,
                   nruns, njobs, lied, overlap, last>>
    /\ UNCHANGED <<response, removed>>

\* The except branch: update_job_status(job_id, 'failed', str(e)).
TExcept(t, saveOk) ==
    /\ th[t].kind \in TriggerKinds /\ th[t].pc = "t_except"
    /\ jobs' = update_job_status(jobs, th[t].job, "failed", "KeyError")
    /\ jobs_file' = IF th[t].job \in DOMAIN jobs
                    THEN save_jobs(jobs', saveOk) ELSE jobs_file
    /\ th' = [th EXCEPT ![t] = Idle]
    /\ UNCHANGED <<now, store, download_progress, running, cron, catchup,
                   nruns, njobs, lied, overlap, last>>
    /\ UNCHANGED <<response, removed>>

\* ---------------------------------------------------------------- system
Quiet == \A t \in Threads : ~Active(t)

\* The front end and direct calls of the pipeline, one run after the other.
NextPipeline ==
    \/ Tick
    \/ \E t \in Threads, cfg \in RunConfigs : Quiet /\ start_download(t, cfg)
    \/ \E t \in Threads, cfg \in RunConfigs : Quiet /\ call_run_download(t, cfg)
    \/ \E t \in Threads : BgInit(t)
    \/ \E t \in Threads : BgParse(t)
    \/ \E t \in Threads : BgFetch(t)
    \/ \E t \in Threads : BgLoop(t)
    \/ \E t \in Threads : run_download(t)
    \/ \E t \in Threads : ServiceReturn(t)
    \/ \E t \in Threads : Probe(t)
    \/ \E t \in Threads : SaveCheck(t)
    \/ \E t \in Threads : SaveSha(t)
    \/ \E t \in Threads : SavePut(t)

SpecPipeline == Init /\ [][NextPipeline]_vars

\* Front-end runs that may overlap: start requests arrive at any time.
FrontendConfigs == {cfg \in RunConfigs : cfg.ids = <<VidA>> \/ cfg.limit = 1}

NextFrontends ==
    \/ Tick
    \/ \E t \in Threads, cfg \in FrontendConfigs : start_download(t, cfg)
    \/ \E t \in Threads : BgInit(t)
    \/ \E t \in Threads : BgParse(t)
    \/ \E t \in Threads : BgFetch(t)
    \/ \E t \in Threads : BgLoop(t)
    \/ \E t \in Threads : Probe(t)
    \/ \E t \in Threads : SaveCheck(t)
    \/ \E t \in Threads : SaveSha(t)
    \/ \E t \in Threads : SavePut(t)

SpecFrontends == Init /\ [][NextFrontends]_vars

\* The same runs where every worker thread that can take a step eventually
\* takes one: the threads are scheduled by the operating system and every
\* external call returns.
FrontendStep(t) ==
    \/ BgInit(t)
    \/ BgParse(t)
    \/ BgFetch(t)
    \/ BgLoop(t)
    \/ Probe(t)
    \/ SaveCheck(t)
    \/ SaveSha(t)
    \/ SavePut(t)

SpecFrontendsFair ==
    /\ Init /\ [][NextFrontends]_vars
    /\ \A t \in Threads : WF_vars(FrontendStep(t))

\* Direct runs over one explicit id, one at a time, under every situation of
\* the transcript API.
FetcherConfigs == {cfg \in RunConfigs : cfg.ids = <<VidA>>}

NextFetcher ==
    \/ \E t \in Threads, cfg \in FetcherConfigs : Quiet /\ call_run_download(t, cfg)
    \/ \E t \in Threads : run_download(t)
    \/ \E t \in Threads : ServiceReturn(t)
    \/ \E t \in Threads : ProbeAny(t)
    \/ \E t \in Threads : SaveCheck(t)
    \/ \E t \in Threads : SaveSha(t)
    \/ \E t \in Threads : SavePut(t)

SpecFetcher == Init /\ [][NextFetcher]_vars

\* Direct calls of save_transcript, one at a time, with titles around the
\* length limit of _sanitize_name and a title that holds the file extension.
TitleOf(n) == [k \in 1..n |-> "t"]

StorageTitles ==
    { TitleOf(1), TitleOf(SanitizeLimit - 2), TitleOf(SanitizeLimit - 1),
      TitleOf(SanitizeLimit), TitleOf(SanitizeLimit + 1),
      <<"t">> \o JsonExt \o <<"t">> }

NextStorage ==
    \/ \E t \in Threads, video_id \in {VidA, VidB}, title \in StorageTitles :
          Quiet /\ call_save_transcript(t, ChannelTitle(Chan1), video_id, title)
    \/ \E t \in Threads : SaveCheck(t)
    \/ \E t \in Threads : SaveSha(t)
    \/ \E t \in Threads : SavePut(t)
    \/ \E t \in Threads : StorageReturn(t)

SpecStorage == Init /\ [][NextStorage]_vars

\* Calls of get_video_ids_from_playlist over the listing configurations.
NextListing ==
    \/ \E t \in Threads, cfg \in ListingConfigs, failAt \in 0..2 :
          call_get_video_ids(t, cfg, failAt)
    \/ \E t \in Threads : ListingReturn(t)

SpecListing == Init /\ [][NextListing]_vars

\* The jobs whose frequency the scheduler supports.
TriggerJobInputs == {in \in JobInputs : in.frequency \in Frequencies}

\* The pipeline steps of a worker and the steps of a trigger handler.
WorkerStep(t) ==
    \/ run_download(t)
    \/ Probe(t)
    \/ SaveCheck(t)
    \/ SaveSha(t)
    \/ SavePut(t)

HandlerStep(t) ==
    \/ TBegin(t)
    \/ TReturn(t)
    \/ TRead(t)
    \/ TWrite(t)
    \/ TUpdate(t, TRUE)
    \/ TExcept(t, TRUE)

\* The scheduler, its triggers and the pipeline runs they make, one trigger
\* after the other; the jobs file is writable.
NextScheduler ==
    \/ Tick
    \/ \E in \in TriggerJobInputs : add_scheduled_job(in, TRUE)
    \/ \E j \in 1..MaxJobs : remove_scheduled_job(j, TRUE)
    \/ start
    \/ \E t \in Threads, j \in 1..MaxJobs : Quiet /\ FireCadence(t, j)
    \/ \E t \in Threads, j \in 1..MaxJobs : Quiet /\ FireCatchup(t, j)
    \/ \E t \in Threads, j \in 1..MaxJobs : Quiet /\ run_job_now(t, j)
    \/ \E t \in Threads : WorkerStep(t)
    \/ \E t \in Threads : HandlerStep(t)

SpecScheduler == Init /\ [][NextScheduler]_vars

\* Triggers of jobs that stay in the mapping, one after the other, over more
\* than one calendar day.
NextWindows ==
    \/ Tick
    \/ NextDay
    \/ \E in \in TriggerJobInputs : add_scheduled_job(in, TRUE)
    \/ start
    \/ \E t \in Threads, j \in 1..MaxJobs : Quiet /\ FireCadence(t, j)
    \/ \E t \in Threads, j \in 1..MaxJobs : Quiet /\ FireCatchup(t, j)
    \/ \E t \in Threads, j \in 1..MaxJobs : Quiet /\ run_job_now(t, j)
    \/ \E t \in Threads : WorkerStep(t)
    \/ \E t \in Threads : TBegin(t)
    \/ \E t \in Threads : TReturn(t)
    \/ \E t \in Threads : TRead(t)
    \/ \E t \in Threads : TWrite(t)
    \/ \E t \in Threads : TUpdate(t, TRUE)

SpecWindows == Init /\ [][NextWindows]_vars

\* Overlapping triggers of a job with one channel.
OverlapJobInputs == {in \in TriggerJobInputs : Len(in.channels) = 1}

NextOverlap ==
    \/ Tick
    \/ \E in \in OverlapJobInputs : add_scheduled_job(in, TRUE)
    \/ \E j \in 1..MaxJobs : remove_scheduled_job(j, TRUE)
    \/ start
    \/ \E t \in Threads, j \in 1..MaxJobs : FireCadence(t, j)
    \/ \E t \in Threads, j \in 1..MaxJobs : FireCatchup(t, j)
    \/ \E t \in Threads, j \in 1..MaxJobs : run_job_now(t, j)
    \/ \E t \in Threads : WorkerStep(t)
    \/ \E t \in Threads : HandlerStep(t)

SpecOverlap == Init /\ [][NextOverlap]_vars

\* The life of the scheduler: creation and removal of jobs with any frequency,
\* start, stop and restart of the process, a jobs file that may refuse a write
\* or a read, and the triggers of jobs with one channel, one after the other.
LifecycleJobInputs == {in \in JobInputs : Len(in.channels) = 1}

NextLifecycle ==
    \/ Tick
    \/ \E in \in LifecycleJobInputs, saveOk \in BOOLEAN :
          add_scheduled_job(in, saveOk)
    \/ \E j \in 1..MaxJobs, saveOk \in BOOLEAN : remove_scheduled_job(j, saveOk)
    \/ start
    \/ stop
    \/ \E readOk \in BOOLEAN : construct(readOk)
    \/ \E t \in Threads, j \in 1..MaxJobs : Quiet /\ FireCadence(t, j)
    \/ \E t \in Threads, j \in 1..MaxJobs : Quiet /\ FireCatchup(t, j)
    \/ \E t \in Threads, j \in 1..MaxJobs : Quiet /\ run_job_now(t, j)
    \/ \E j \in 1..MaxJobs : run_job_now_missing(j)
    \/ \E t \in Threads : WorkerStep(t)
    \/ \E t \in Threads : TCheck(t)
    \/ \E t \in Threads : TConfig(t)
    \/ \E t \in Threads : TRaised(t)
    \/ \E t \in Threads : TReturn(t)
    \/ \E t \in Threads : TRead(t)
    \/ \E t \in Threads : TWrite(t)
    \/ \E t \in Threads, saveOk \in BOOLEAN : TUpdate(t, saveOk)
    \/ \E t \in Threads, saveOk \in BOOLEAN : TExcept(t, saveOk)

SpecLifecycle == Init /\ [][NextLifecycle]_vars

\* ================================================================ claims
InFlight == {"probe", "save_check", "save_sha", "save_put"}

ActiveStatus == {"running", "fetching_channel", "downloading"}

C3_OneFilePerVideo ==
    (~lied /\ ~overlap)
    => \A f, g \in store : f.content.video_id = g.content.video_id => f = g

\* A run met, under another folder and another title, a video that an earlier
\* run stored, and counted it as a duplicate.
C3_Witness ==
    /\ ~lied /\ ~overlap
    /\ \E t \in Threads, f \in store :
         /\ Active(t) /\ th[t].i >= 1
         /\ th[t].results[1] = "duplicate"
         /\ th[t].videos[1].id = f.content.video_id
         /\ th[t].videos[1].title # f.content.title
         /\ th[t].videos[1].channel # f.content.channel

\* C4: a run that follows, with the same configuration and alone, a run that
\* stored every candidate issues no write, counts every item as a duplicate
\* and leaves the store as the first run left it.
C4_SecondRunIdempotent ==
    (last.any /\ last.alone /\ last.pred.all /\ last.pred.cfg = last.cfg)
    => /\ last.puts = 0
       /\ last.dup = Len(last.videos)
       /\ last.store = last.pred.store

\* C5: save_transcript entered for a video_id that is stored answers duplicate
\* and goes no further (no sha lookup, no write).
C5_SecondSaveIsDuplicate ==
    [][\A t \in Threads :
         (th[t].pc = "save_check" /\ th'[t] # th[t]
            /\ Item(t).id \in StoredIds(store))
         => /\ th'[t].results = Append(th[t].results, "duplicate")
            /\ th'[t].pc \notin {"save_sha", "save_put"}]_vars

\* C6: total_downloads of a job never decreases from one state to the next,
\* whatever triggers of the job overlap.
C6_TotalNeverDecreases ==
    [][\A j \in DOMAIN jobs \cap DOMAIN jobs' :
         jobs'[j].total_downloads >= jobs[j].total_downloads]_vars

\* C7: after the resolution of one channel of a trigger has failed, no further
\* channel of the trigger is downloaded, and the trigger ends with the job's
\* status failed and last_error set.
C7_FailedChannelAbortsTrigger ==
    [][\A t \in Threads :
         /\ (th[t].kind \in TriggerKinds /\ th[t].pc = "return"
               /\ th[t].ret = "error" /\ th'[t] # th[t])
            => th'[t].pc # "call"
         /\ (th[t].kind \in TriggerKinds /\ th[t].failedChannels > 0
               /\ th[t].pc \in {"t_update", "t_except"} /\ th'[t] = Idle
               /\ th[t].job \in DOMAIN jobs)
            => /\ jobs'[th[t].job].status = "failed"
               /\ jobs'[th[t].job].last_error # ""]_vars

CadenceOrManual == {"cadence", "manual"}

\* C8 as stated: the window a cadence or manual trigger hands to the pipeline
\* starts at last_run when last_run is set, at start_date otherwise.
C8_Original ==
    [][\A t \in Threads :
         (th[t].kind \in CadenceOrManual /\ th[t].pc = "t_begin"
            /\ th'[t].pc = "call")
         => LET job_config == jobs[th[t].job]
            IN  IF job_config.last_run # None
                THEN Midnight(th'[t].cfg.after) = job_config.last_run
                ELSE th'[t].cfg.after = job_config.start_date]_vars

\* C8 amended: the after_date of a cadence or manual trigger is the calendar
\* day of last_run as read when the trigger starts (the window starts at that
\* day's midnight), start_date when last_run is not set; every channel of the
\* trigger gets the same after_date.
C8_AfterDateIsDayOfLastRun ==
    [][\A t \in Threads :
         /\ (th[t].kind \in CadenceOrManual /\ th[t].pc = "t_begin"
               /\ th'[t].pc = "call")
            => LET job_config == jobs[th[t].job]
               IN  th'[t].cfg.after =
                       IF job_config.last_run # None
                       THEN DayOf(job_config.last_run)
                       ELSE job_config.start_date
         /\ (th[t].kind \in CadenceOrManual /\ th[t].pc = "return"
               /\ th'[t].pc = "call")
            => th'[t].cfg.after = th[t].cfg.after]_vars

\* A cadence or manual trigger calls the pipeline for a job whose last run
\* ended in the middle of a day other than its start_date.
C8_Witness ==
    \E t \in Threads :
        /\ th[t].kind \in CadenceOrManual /\ th[t].pc = "call"
        /\ th[t].last_run_date # None
        /\ Midnight(DayOf(th[t].last_run_date)) # th[t].last_run_date
        /\ th[t].cfg.after = DayOf(th[t].last_run_date)
        /\ th[t].job \in DOMAIN jobs
        /\ jobs[th[t].job].start_date # th[t].cfg.after

\* C9: last_run is the time of the last successful run: a trigger in which a
\* channel failed leaves last_run as it was.
C9_FailedTriggerKeepsLastRun ==
    [][\A t \in Threads :
         (th[t].kind \in TriggerKinds /\ th[t].failedChannels > 0
            /\ th[t].pc \in {"t_update", "t_except"} /\ th'[t] = Idle
            /\ th[t].job \in DOMAIN jobs)
         => jobs'[th[t].job].last_run = jobs[th[t].job].last_run]_vars

JobStatus == {"active", "completed", "failed"}

FinishesTrigger(t, j) ==
    /\ th[t].kind \in TriggerKinds /\ th[t].job = j
    /\ th[t].pc \in {"t_update", "t_except"} /\ th'[t] = Idle

\* C10: a job is created active; its status is active, completed or failed;
\* only a trigger of the job that finishes changes it, to completed or failed;
\* once it is not active it is never active again.
C10_StatusMachine ==
    [][/\ \A j \in DOMAIN jobs' \ DOMAIN jobs : jobs'[j].status = "active"
       /\ \A j \in DOMAIN jobs \cap DOMAIN jobs' :
            /\ jobs'[j].status \in JobStatus
            /\ jobs[j].status # "active" => jobs'[j].status # "active"
            /\ jobs'[j].status # jobs[j].status
               => \E t \in Threads : FinishesTrigger(t, j)
            /\ (\E t \in Threads : FinishesTrigger(t, j))
               => jobs'[j].status \in {"completed", "failed"}]_vars

\* A second trigger starts on a job that a first trigger left completed with
\* downloads counted.
C10_Witness ==
    \E t \in Threads :
        /\ th[t].kind \in TriggerKinds /\ th[t].pc = "t_begin"
        /\ th[t].job \in DOMAIN jobs
        /\ jobs[th[t].job].status = "completed"
        /\ jobs[th[t].job].last_run # None
        /\ jobs[th[t].job].total_downloads > 0

\* C11: while the scheduler is started, every job of the mapping (here: every
\* job with a supported frequency) has its cadence trigger, whatever its
\* status.
C11_EveryJobArmedWhileStarted ==
    running => \A j \in DOMAIN jobs :
                   jobs[j].frequency \in Frequencies => j \in cron

\* C12: a start of a scheduler that holds no trigger yet (the mapping was
\* loaded from the file) arms the cadence trigger of exactly the jobs whose
\* status is active.
C12_RestartArmsActiveJobs ==
    [][(~running /\ running' /\ cron = {})
       => cron' = {j \in DOMAIN jobs : jobs[j].status = "active"}]_vars

\* C13: add_scheduled_job with a frequency other than daily, weekly, monthly
\* returns a failure result, whether the scheduler is started or stopped.
C13_UnsupportedFrequencyFails ==
    [][(njobs' = njobs + 1 /\ jobs'[njobs + 1].frequency \notin Frequencies)
       => (response'.op = "add" /\ ~response'.success)]_vars

\* C14: a successful add_scheduled_job schedules the catch-up trigger of the
\* new job and of no other job; firing it consumes it and leaves the cadence
\* triggers alone; the catch-up run calls the pipeline for each channel of the
\* job in order, once, with after_date = start_date.
C14_CatchupOnce ==
    [][/\ (njobs' = njobs + 1 /\ response'.success)
          => (njobs + 1 \notin catchup /\ catchup' = catchup \cup {njobs + 1})
       /\ \A j \in catchup' \ catchup : njobs' = njobs + 1 /\ j = njobs + 1
       /\ \A t \in Threads :
            /\ (th[t].kind = "idle" /\ th'[t].kind = "catchup")
               => /\ th'[t].job \in catchup \ catchup'
                  /\ cron' = cron
            /\ (th[t].kind = "catchup" /\ th[t].pc = "t_begin"
                  /\ th'[t].pc = "call")
               => /\ th'[t].cfg.after = jobs[th[t].job].start_date
                  /\ th'[t].cfg.channel = jobs[th[t].job].channels[1]
            /\ (th[t].kind = "catchup" /\ th[t].pc = "return"
                  /\ th'[t] # th[t])
               => IF th[t].done + 1 < Len(th[t].channels)
                  THEN /\ th'[t].pc = "call"
                       /\ th'[t].cfg.channel = th[t].channels[th[t].done + 2]
                       /\ th'[t].cfg.after = th[t].cfg.after
                  ELSE th'[t].pc = "t_read"]_vars

\* The catch-up trigger runs the second channel of a job that an earlier
\* trigger has already run: last_run is set, on another day than start_date,
\* and the window still starts at start_date.
C14_Witness ==
    \E t \in Threads :
        /\ th[t].kind = "catchup" /\ th[t].pc = "call" /\ th[t].done = 1
        /\ th[t].last_run_date # None
        /\ th[t].job \in DOMAIN jobs
        /\ th[t].job \notin catchup
        /\ th[t].cfg.after = jobs[th[t].job].start_date
        /\ th[t].cfg.after # DayOf(th[t].last_run_date)

AddReturns == njobs' = njobs + 1

RemoveReturns == response'.op = "remove" /\ jobs' # jobs

UpdateReturns ==
    \E t \in Threads, j \in DOMAIN jobs : FinishesTrigger(t, j)

\* C15: when add_scheduled_job, remove_scheduled_job or update_job_status
\* returns, the jobs file holds the in-memory mapping, and loading the file
\* gives that mapping.
C15_FileHoldsMapping ==
    [][(AddReturns \/ RemoveReturns \/ UpdateReturns)
       => (jobs_file' = jobs' /\ load_jobs(jobs_file', TRUE) = jobs')]_vars

\* C16: a failure of one item (fetch or save) never aborts the run.  Past the
\* resolution, a run has recorded exactly one outcome for each candidate it has
\* left behind, in list order; it is still working on a candidate of the list
\* or has recorded all of them; a direct run returns its success result with
\* one outcome per candidate; a front-end run stays active while it works and
\* a record that counts an item failure is downloading or completed, never in
\* error.
C16_ItemFailuresDoNotAbort ==
    /\ \A t \in Threads :
         (th[t].pc \in InFlight \cup {"loop", "return"} /\ th[t].ret # "error")
         => /\ Len(th[t].results) = th[t].i
            /\ th[t].i <= Len(th[t].videos)
            /\ th[t].success + th[t].failed = th[t].i
            /\ th[t].pc \in InFlight => th[t].i < Len(th[t].videos)
            /\ (th[t].kind # "frontend" /\ th[t].pc = "return")
                 => th[t].i = Len(th[t].videos) /\ th[t].ret = "success"
            /\ (th[t].kind = "frontend" /\ th[t].pc \in InFlight \cup {"loop"})
                 => download_progress[th[t].task].status \in ActiveStatus
    /\ \A k \in DOMAIN download_progress :
         (download_progress[k].errors > 0 \/ download_progress[k].failed > 0)
         => download_progress[k].status \in {"downloading", "completed"}

\* A direct run over two candidates returns success although the first
\* candidate failed.
C16_Witness ==
    \E t \in Threads :
        /\ th[t].kind = "service" /\ th[t].pc = "return"
        /\ th[t].ret = "success"
        /\ Len(th[t].videos) = 2
        /\ th[t].results = <<"error", "success">>

\* C17: a failure of the resolution phase (no credentials, channel lookup,
\* uploads-list lookup, a playlist page) aborts the whole run.  A direct run
\* whose resolution failed is at its return with the error result, an error
\* text, no candidate, no outcome and nothing saved; no front-end run whose
\* resolution failed is alive past the resolution; the run it leaves behind
\* did not finish normally, had no candidate, saved nothing and left the store
\* as it found it; a front-end record in error carries the error text and no
\* item was ever counted or announced in it.
C17_ResolutionFailureAborts ==
    /\ \A t \in Threads :
         (th[t].kind \in {"service", "frontend"} /\ th[t].resFailed)
         => /\ th[t].kind = "service"
            /\ th[t].pc = "return" /\ th[t].ret = "error"
            /\ th[t].error # ""
            /\ th[t].videos = <<>> /\ th[t].results = <<>>
            /\ th[t].i = 0 /\ th[t].puts = 0
    /\ last.resFailed
         => /\ ~last.any
            /\ last.videos = <<>> /\ last.success = 0 /\ last.puts = 0
            /\ last.store = last.pred.store
    /\ \A k \in DOMAIN download_progress :
         download_progress[k].status = "error"
         => /\ download_progress[k].error # ""
            /\ download_progress[k].total = 0
            /\ download_progress[k].current = 0
            /\ download_progress[k].success = 0
            /\ download_progress[k].failed = 0

\* A direct run returns the error of the second playlist page, whose first
\* page held a candidate, and the run before it was a front-end or direct run
\* that ended on a failed resolution.
C17_Witness ==
    /\ \E t \in Threads :
         /\ th[t].kind = "service" /\ th[t].pc = "return"
         /\ th[t].resFailed /\ th[t].ret = "error"
         /\ th[t].pages = 2
         /\ th[t].error = "Error fetching playlist items"
    /\ last.resFailed
    /\ \E k \in DOMAIN download_progress : download_progress[k].status = "error"

\* C18: any non-success HTTP status met during the resolution (channel
\* search, channel name lookup, uploads lookup, any playlist page) fails the
\* resolution fatally: the run whose resolution met one is a direct run at its
\* return with the error result and no candidate list, and no front-end run
\* that met one is alive past the resolution.
C18_NonSuccessStatusIsFatal ==
    \A t \in Threads :
        (th[t].kind \in {"service", "frontend"} /\ th[t].httpFailed)
        => /\ th[t].kind = "service"
           /\ th[t].pc = "return" /\ th[t].ret = "error"
           /\ th[t].videos = <<>>

\* The reference listing: the items of the pages in the order the pages
\* deliver them, those strictly later than the filter, the first n of them.
RECURSIVE Flatten(_)
Flatten(pages) ==
    IF pages = <<>> THEN <<>> ELSE Head(pages) \o Flatten(Tail(pages))

Later(item, after) == after = None \/ item.date > Midnight(after)

Matching(pages, after) == SelectSeq(Flatten(pages), LAMBDA item : Later(item, after))

Take(s, n) == SubSeq(s, 1, IF n < Len(s) THEN n ELSE Len(s))

IdsOf(videos) == [k \in 1..Len(videos) |-> videos[k].id]

Listed(t) == th[t].kind = "listing" /\ th[t].ret = "success"

\* C19 as stated: a listing returns the matching items in page order,
\* truncated to the first N whenever a limit N is given.
C19_Original ==
    \A t \in Threads :
        Listed(t)
        => LET m == Matching(UploadPages(th[t].cfg.channel), th[t].cfg.after)
           IN  IdsOf(th[t].videos)
                 = IdsOf(IF th[t].cfg.limit = None THEN m
                         ELSE Take(m, th[t].cfg.limit))

\* C19 amended: a listing returns the matching items in page order (an item
\* exactly at the filter is not one), truncated to the first N when a positive
\* limit N is given and whole when the limit is absent or 0; each element
\* carries the id, title and date of its item.
C19_ListingIsReference ==
    \A t \in Threads :
        Listed(t)
        => LET m == Matching(UploadPages(th[t].cfg.channel), th[t].cfg.after)
               n == th[t].cfg.limit
               ref == IF n = None \/ n = 0 THEN m ELSE Take(m, n)
           IN  /\ Len(th[t].videos) = Len(ref)
               /\ \A k \in 1..Len(ref) :
                     /\ th[t].videos[k].id = ref[k].id
                     /\ th[t].videos[k].title = ref[k].title
                     /\ th[t].videos[k].date = ref[k].date
               /\ (n # None /\ n > 0)
                    => Len(th[t].videos) = IF n < Len(m) THEN n ELSE Len(m)

\* A listing with a filter and limit 2 over more than two matching items
\* returned two items, the second from the second page, leaving out the first
\* item of the first page, published exactly at the filter.
C19_Witness ==
    \E t \in Threads :
        /\ Listed(t)
        /\ th[t].cfg.after # None /\ th[t].cfg.limit = 2
        /\ Len(th[t].videos) = 2
        /\ th[t].videos[1].id = VidB /\ th[t].videos[2].id = VidC
        /\ UploadPages(th[t].cfg.channel)[1][1].date = Midnight(th[t].cfg.after)
        /\ Len(Matching(UploadPages(th[t].cfg.channel), th[t].cfg.after)) > 2

\* The pages a listing has to request: with a limit to satisfy, up to the first
\* page at whose end that many matching items have been seen, every page
\* when there is none; without one, every page.
Enough(pages, after, n) ==
    {k \in 1..Len(pages) : Len(Matching(SubSeq(pages, 1, k), after)) >= n}

RefPages(pages, after, n, limited) ==
    IF limited /\ Enough(pages, after, n) # {}
    THEN CHOOSE k \in Enough(pages, after, n) :
             \A j \in Enough(pages, after, n) : k <= j
    ELSE Len(pages)

PageRequestsAre(t, limited) ==
    LET ref == RefPages(UploadPages(th[t].cfg.channel), th[t].cfg.after,
                        th[t].cfg.limit, limited)
    IN  /\ th[t].ret = "success" => th[t].pages = ref
        /\ th[t].ret = "error" => th[t].pages \in 1..ref

\* C20 as stated: whenever a limit is given, no page is requested past the
\* one that satisfies it; without a limit every page is requested once.
C20_Original ==
    \A t \in Threads :
        th[t].kind = "listing" => PageRequestsAre(t, th[t].cfg.limit # None)

\* C20 amended: pages are requested in order, each once; with a positive limit
\* the page at whose end the limit is satisfied is the last one requested;
\* with the limit absent or 0 every page is requested; a page request that
\* fails is the last one and is none past those.
C20_PagesRequested ==
    \A t \in Threads :
        th[t].kind = "listing"
        => PageRequestsAre(t, th[t].cfg.limit # None /\ th[t].cfg.limit > 0)

\* One listing stopped after the first of two pages, its limit satisfied by
\* the last item of that page, while another without a limit requested both.
C20_Witness ==
    \E t, u \in Threads :
        /\ Listed(t) /\ Listed(u)
        /\ th[t].cfg.limit = 1 /\ th[t].cfg.after = 0
        /\ th[t].pages = 1 /\ Len(UploadPages(th[t].cfg.channel)) = 2
        /\ th[t].videos[1].id = VidB
        /\ th[u].cfg.limit = None /\ th[u].pages = 2

\* The fetcher was called for the latest item of worker t (the probe answered
\* absent); the tiers that can return a transcript in the situation it met;
\* the tier calls it made, in order.
Fetched(t) == th[t].env # NoEnv

GoodTiers(e) == {k \in 1..Len(Tiers) : e.list /\ TierOk(e, k)}

FirstGood(e) == CHOOSE k \in GoodTiers(e) : \A j \in GoodTiers(e) : k <= j

TierCalls(t) == SelectSeq(th[t].calls, LAMBDA c : c \in {Tiers[k] : k \in 1..Len(Tiers)})

KnownTags == {"manual", "auto-generated", "auto (language)"}

\* C21: the fetcher tries the tiers in the order manual, auto-generated, any
\* English, first available; it stops at the first tier that returns and the
\* transcript carries that tier's type: manual, auto-generated, or the
\* language for the last tier, never a placeholder.
C21_FirstTierWinsTagged ==
    \A t \in Threads :
        (Fetched(t) /\ GoodTiers(th[t].env) # {} /\ ~th[t].env.empty)
        => LET k == FirstGood(th[t].env)
           IN  /\ TierCalls(t) = SubSeq(Tiers, 1, k)
               /\ th[t].ttype \in KnownTags
               /\ k = 1 => th[t].ttype = "manual"
               /\ k = 2 => th[t].ttype = "auto-generated"
               /\ k = 4 => th[t].ttype = "auto (language)"

\* The fetcher reported a failure for the latest item of worker t: save was
\* not called for it and will not be.
FetchFailed(t) ==
    /\ Fetched(t) /\ th[t].pc # "save_check"
    /\ \A k \in 1..Len(th[t].calls) : th[t].calls[k] # "save"
    /\ th[t].results # <<>> /\ th[t].results[Len(th[t].results)] = "error"

\* The item of worker t went on to save.
WentToSave(t) ==
    /\ Fetched(t)
    /\ \/ th[t].pc = "save_check"
       \/ \E k \in 1..Len(th[t].calls) : th[t].calls[k] = "save"

\* C22 as stated: for an item not already stored, the fetcher reports a
\* failure exactly when the listing fails or all four tiers fail; in every
\* other case the item proceeds to save.
C22_Original ==
    \A t \in Threads :
        Fetched(t)
        => /\ FetchFailed(t) <=> GoodTiers(th[t].env) = {}
           /\ WentToSave(t) <=> GoodTiers(th[t].env) # {}

\* C22 amended: for an item not already stored, the fetcher reports a failure
\* exactly when the listing fails, when all four tiers fail, or when the
\* transcript the first returning tier fetched has no entry; in every other
\* case the failures of the earlier tiers are swallowed and the item proceeds
\* to save.
C22_FailureOnlyWhenExhausted ==
    \A t \in Threads :
        Fetched(t)
        => LET fails == GoodTiers(th[t].env) = {} \/ th[t].env.empty
           IN  /\ FetchFailed(t) <=> fails
               /\ WentToSave(t) <=> ~fails

\* Three tiers failed, the fourth returned a transcript, and the item was
\* saved.
C22_Witness ==
    \E t \in Threads :
        /\ Fetched(t) /\ GoodTiers(th[t].env) = {4} /\ ~th[t].env.empty
        /\ TierCalls(t) = Tiers
        /\ th[t].puts = 1
        /\ th[t].results = <<"success">>

\* C23: with explicit ids the candidate list has one item per id, in the given
\* order, titled video_<id>; no channel call is made, also when a channel is
\* given too (no page is requested and the only resolution error is the
\* missing key); the total is the number of ids; every id gets its outcome and
\* one delay is slept between consecutive items.
C23_ExplicitIds ==
    /\ \A t \in Threads :
         (th[t].kind \in {"service", "frontend"} /\ th[t].cfg.ids # <<>>
            /\ th[t].pc \in InFlight \cup {"loop", "return"}
            /\ th[t].ret # "error")
         => LET ids == th[t].cfg.ids
                n == Len(ids)
            IN  /\ Len(th[t].videos) = n
                /\ \A k \in 1..n :
                      /\ th[t].videos[k].id = ids[k]
                      /\ th[t].videos[k].title = VideoPrefix \o ids[k]
                /\ th[t].pages = 0
                /\ th[t].delays = IF th[t].i < n THEN th[t].i ELSE n - 1
                /\ th[t].kind = "frontend"
                     => download_progress[th[t].task].total = n
                /\ (th[t].kind = "service" /\ th[t].pc = "return")
                     => Len(th[t].results) = n /\ th[t].i = n
    /\ \A t \in Threads :
         (th[t].cfg.ids # <<>> /\ th[t].error # "")
         => th[t].error = "No API key" /\ th[t].pages = 0
    /\ (last.cfg.ids # <<>> /\ last.any)
         => Len(last.videos) = Len(last.cfg.ids)

\* A direct run given two ids and a channel returns two outcomes after one
\* delay.
C23_Witness ==
    \E t \in Threads :
        /\ th[t].kind = "service" /\ th[t].pc = "return"
        /\ th[t].cfg.ids = <<VidA, VidB>> /\ th[t].cfg.channel # <<>>
        /\ Len(th[t].results) = 2 /\ th[t].delays = 1
        /\ th[t].videos[2].title = VideoPrefix \o VidB

\* C24: two distinct front-end runs never share a progress record: the runs
\* alive at the same time have different identifiers, and a run that starts
\* gets an identifier no record exists under yet.
C24_RunsNeverShareRecord ==
    /\ \A t, u \in Threads :
         (t # u /\ th[t].kind = "frontend" /\ th[u].kind = "frontend")
         => th[t].task # th[u].task
    /\ \A t \in Threads :
         (th[t].kind = "frontend" /\ th[t].pc = "init")
         => th[t].task \notin DOMAIN download_progress

\* C25: a stored transcript is retrievable by its (channel, title) pair: for
\* every record save_transcript wrote, get_transcript with the record's
\* channel and title, answered by the hosting API, returns that record.
C25_StoredIsRetrievable ==
    \A f \in store :
        get_transcript(store, f.content.channel, f.content.title, TRUE) = f.content

\* C26: no exception escapes a triggered run, also when remove_scheduled_job
\* for the same job runs beside it: no handler is ever left by an exception.
C26_NoExceptionEscapes ==
    \A t \in Threads : th[t].kind \in TriggerKinds => th[t].pc # "t_raised"

\* The outcome worker t recorded last.
LastOutcome(r) == r.results[Len(r.results)]

\* C27: the existence probes and the write are not atomic and the write
\* detects nothing: a run that has passed both probes issues its write
\* whatever other runs have stored since, and the outcome of an issued write
\* is success when the hosting API accepts it (the record is then in the
\* store) and a plain failure otherwise, never a duplicate or a conflict.
C27_RaceNotDetected ==
    [][\A t \in Threads :
         (th[t].pc = "save_put" /\ th'[t].pc # "save_put")
         => /\ th'[t].puts = th[t].puts + 1
            /\ LastOutcome(th'[t]) \in {"success", "error"}
            /\ LastOutcome(th'[t]) = "success"
                 => \E f \in store' :
                       /\ f.content.video_id = th[t].videos[th[t].i + 1].id
                       /\ f.content.downloaded_at = th[t].at
            /\ LastOutcome(th'[t]) = "error" => store' = store]_vars

\* Two overlapping runs have both counted the same video as a success, each
\* after one write, and no probe was answered wrongly: both probes of both
\* runs found the video absent, so both were made before either write.
C27_Witness ==
    \E t, u \in Threads :
        /\ t # u /\ Active(t) /\ Active(u)
        /\ th[t].videos # <<>> /\ th[u].videos # <<>>
        /\ th[t].videos[1].id = th[u].videos[1].id
        /\ th[t].i = 1 /\ th[u].i = 1
        /\ th[t].results = <<"success">> /\ th[u].results = <<"success">>
        /\ th[t].puts = 1 /\ th[u].puts = 1
        /\ ~lied

\* C28: nothing keeps two invocations of one job from running at the same
\* time, and only then (or when a probe was answered wrongly) can the job's
\* total_downloads differ from the number of distinct transcripts its
\* triggers stored: whenever no handler is running, no two invocations have
\* overlapped and every probe was answered truly, the two numbers are equal.
C28_TotalMatchesStoredUnlessOverlap ==
    (Quiet /\ ~overlap /\ ~lied)
    => \A j \in DOMAIN jobs :
          jobs[j].total_downloads = Cardinality(StoredIds(store))

\* Two invocations of the job have overlapped, every probe was answered
\* truly, both have ended, and the job counts two downloads for the one
\* transcript in the store.
C28_Witness ==
    /\ Quiet /\ overlap /\ ~lied
    /\ \E j \in DOMAIN jobs :
         /\ jobs[j].total_downloads = 2
         /\ jobs[j].status = "completed"
    /\ Cardinality(StoredIds(store)) = 1

\* C29: for every item of a direct run the existence probe is the first call
\* and is made once; when it answers present the item is a duplicate and
\* neither the fetcher nor save is called; the fetcher starts with the
\* listing; save is called last, once, and only after a tier has returned a
\* transcript with entries.
C29_ProbeThenFetchThenSave ==
    \A t \in Threads :
        (th[t].kind = "service" /\ th[t].calls # <<>>)
        => LET calls == th[t].calls
               n == Len(calls)
               saving == th[t].pc \in {"save_check", "save_sha", "save_put"}
           IN  /\ calls[1] = "probe"
               /\ \A k \in 2..n : calls[k] # "probe"
               /\ ~Fetched(t)
                    => /\ calls = <<"probe">> /\ ~saving
                       /\ th[t].results # <<>>
                       /\ LastOutcome(th[t]) = "duplicate"
               /\ Fetched(t) => n >= 2 /\ calls[2] = "list"
               /\ th[t].pc \in {"save_sha", "save_put"} => calls[n] = "save"
               /\ (saving \/ \E k \in 1..n : calls[k] = "save")
                    => /\ Fetched(t)
                       /\ GoodTiers(th[t].env) # {} /\ ~th[t].env.empty
                       /\ \A k \in 1..n :
                             calls[k] = "save"
                             => k = n /\ calls[k - 1] = Tiers[FirstGood(th[t].env)]

\* A direct run stored its first item and found its second one present at the
\* probe: a duplicate with no other call made.
C29_Witness ==
    \E t \in Threads :
        /\ th[t].kind = "service" /\ th[t].pc = "return"
        /\ th[t].results = <<"success", "duplicate">>
        /\ th[t].calls = <<"probe">>
        /\ th[t].puts = 1

\* Save reports duplicate for the item of worker t, which the probe of
\* download_transcript had found absent.
SaveReportsDuplicate(t) ==
    /\ th[t].pc = "save_check" /\ th'[t].pc # "save_check"
    /\ th'[t].puts = th[t].puts
    /\ Len(th'[t].results) = Len(th[t].results) + 1

\* C30 as stated: when save reports duplicate the duplicate counter is
\* incremented and the failure counter is not.
C30_Original ==
    [][\A t \in Threads :
         SaveReportsDuplicate(t)
         => /\ LastOutcome(th'[t]) = "duplicate"
            /\ th'[t].dup = th[t].dup + 1
            /\ th'[t].failed = th[t].failed]_vars

\* C30 amended: when save reports duplicate the item's outcome is duplicate:
\* the duplicate counter and the failed counter are both incremented (a
\* duplicate is counted inside failed), the success counter is not, and the
\* front-end's count of other errors is not.
C30_SaveDuplicateCounted ==
    [][\A t \in Threads :
         SaveReportsDuplicate(t)
         => /\ LastOutcome(th'[t]) = "duplicate"
            /\ th'[t].dup = th[t].dup + 1
            /\ th'[t].failed = th[t].failed + 1
            /\ th'[t].success = th[t].success
            /\ th[t].kind = "frontend"
                 => LET p == download_progress[th[t].task]
                        q == download_progress'[th[t].task]
                    IN  /\ q.duplicates = p.duplicates + 1
                        /\ q.failed = p.failed + 1
                        /\ q.errors = p.errors
                        /\ q.success = p.success]_vars

\* A direct run whose probe found the item absent was told duplicate by save:
\* one duplicate, counted as one failure, nothing written.
C30_Witness ==
    \E t \in Threads :
        /\ th[t].kind = "service" /\ th[t].pc = "return"
        /\ Fetched(t)
        /\ th[t].calls[Len(th[t].calls)] = "save"
        /\ th[t].results = <<"duplicate">>
        /\ th[t].dup = 1 /\ th[t].failed = 1 /\ th[t].puts = 0

\* The worker t is inside the item loop of a pipeline run, or has just left
\* it: its candidate list is known.
InLoop(t) ==
    /\ Active(t) /\ th[t].kind # "listing"
    /\ th[t].pc \in InFlight \cup {"loop", "return"}
    /\ th[t].ret # "error"

\* C31: in a run over n candidates one delay is slept after each item except
\* the last, whatever the item's outcome: while item k (counted from 1) is in
\* flight k - 1 delays have been slept, and when the loop is left exactly
\* max(0, n - 1).
C31_DelayBetweenItems ==
    \A t \in Threads :
        InLoop(t)
        => LET n == Len(th[t].videos)
           IN  /\ th[t].delays = (IF th[t].i < n THEN th[t].i
                                  ELSE IF n = 0 THEN 0 ELSE n - 1)
               /\ th[t].pc \in InFlight => th[t].delays = th[t].i
               /\ (th[t].pc = "return" \/ (th[t].pc = "loop" /\ th[t].i = n))
                    => th[t].delays = (IF n = 0 THEN 0 ELSE n - 1)

\* A direct run over two candidates has ended: the first item was not stored
\* (a failure or a duplicate), and one delay was slept.  A front-end run has
\* finished its only item without a delay.
C31_Witness ==
    /\ \E t \in Threads :
         /\ th[t].kind = "service" /\ th[t].pc = "return"
         /\ Len(th[t].videos) = 2 /\ th[t].results[1] # "success"
         /\ th[t].delays = 1
    /\ last.any /\ Len(last.videos) = 1

TerminalStatus == {"completed", "error"}

\* The run of worker t ends in this step.
RunEnds(t) == th[t].kind = "frontend" /\ th'[t].kind = "idle"

\* C32: every started front-end run ends, the status of its progress record
\* is then completed or error, and a progress record with one of these two
\* statuses no longer changes.
C32_TerminalAndFrozen ==
    /\ \A t \in Threads : (th[t].kind = "frontend") ~> (th[t].kind = "idle")
    /\ [][\A t \in Threads :
            RunEnds(t)
            => download_progress'[th[t].task].status \in TerminalStatus]_vars
    /\ [][\A k \in DOMAIN download_progress :
            download_progress[k].status \in TerminalStatus
            => /\ k \in DOMAIN download_progress'
               /\ download_progress'[k] = download_progress[k]]_vars

\* The order of the statuses of a progress record.
StatusRank(status) ==
    IF status = "running" THEN 0
    ELSE IF status = "fetching_channel" THEN 1
    ELSE IF status = "downloading" THEN 2 ELSE 3

\* An observer of one task id sees p, then q.
GrowsTo(p, q) ==
    /\ q.current >= p.current
    /\ q.success >= p.success
    /\ q.failed >= p.failed
    /\ q.duplicates >= p.duplicates
    /\ StatusRank(q.status) >= StatusRank(p.status)

\* C33: the fields of the progress record of a run identifier only grow:
\* from one state to the next current, success, failed and duplicates do not
\* decrease and the status does not move back in the order running,
\* fetching_channel, downloading, completed/error; and current never exceeds
\* total.
C33_ProgressOnlyGrows ==
    /\ [](\A k \in DOMAIN download_progress :
            download_progress[k].current <= download_progress[k].total)
    /\ [][\A k \in DOMAIN download_progress \cap DOMAIN download_progress' :
            GrowsTo(download_progress[k], download_progress'[k])]_vars

\* C34: once remove_scheduled_job(jobId) has returned success, neither the job
\* mapping nor the persisted job file contains jobId again, also when a run of
\* the job is in flight and later updates the job's totals and status; and a
\* trigger of jobId that starts afterwards returns at its first test, without
\* a download.
C34_RemovedJobStaysRemoved ==
    /\ [](\A j \in removed : j \notin DOMAIN jobs /\ j \notin DOMAIN jobs_file)
    /\ [][\A t \in Threads :
            (th[t].kind \in TriggerKinds /\ th[t].pc = "t_begin"
               /\ th[t].job \in removed)
            => th'[t].pc \in {"t_begin", "idle"}]_vars

\* add_scheduled_job returns a failure result in this step.
AddFails == njobs' = njobs + 1 /\ response'.op = "add" /\ ~response'.success

\* C35: an add_scheduled_job call that returns a failure result leaves the job
\* mapping, the job file and the armed triggers as they were; and every job in
\* the mapping has a frequency a cadence trigger can be built for, so that
\* start() restores every active job.
C35_FailedAddLeavesNoTrace ==
    /\ [][AddFails => UNCHANGED <<jobs, jobs_file, cron, catchup>>]_vars
    /\ [](\A j \in DOMAIN jobs :
            get_cron_trigger(jobs[j].frequency) # "ValueError")
    /\ [][(~running /\ running')
           => \A j \in DOMAIN jobs : ~RestoreRaises(j)]_vars

\* C36: a task id that start_download has returned is known to get_progress
\* from then on: a poll for it at any later time yields a progress record,
\* never the not-found marker, wherever the worker thread stands.
C36_ReturnedIdIsKnown ==
    /\ [](\A t \in Threads :
            th[t].kind = "frontend" => get_progress(th[t].task) # NotFound)
    /\ [][\A k \in DOMAIN download_progress :
            get_progress(k)' # NotFound]_vars

\* The trigger of worker t ends in this step, its job still in the mapping.
TriggerEnds(t) ==
    /\ th[t].kind \in TriggerKinds /\ th[t].pc \in {"t_update", "t_except"}
    /\ th'[t].kind = "idle"
    /\ th[t].job \in DOMAIN jobs'

\* The day up to which the trigger of worker t has covered the channels of its
\* job: the day on which it obtained its first candidate list when it obtained
\* one for every channel, the day its own window starts otherwise.
CoveredUpTo(t) ==
    IF th[t].failedChannels = 0 /\ th[t].listedDay # None
    THEN th[t].listedDay ELSE th[t].after

\* C37: successive triggers of a job leave no gap: the after_date the next
\* cadence or manual trigger is given (the date filter computed from the job as
\* a trigger leaves it) is not later than the moment at which that trigger
\* obtained its candidate lists (it is a midnight, so: its day is not later
\* than the day of that moment), nor, when that trigger failed to resolve a
\* channel, later than the start of that trigger's own window.
C37_NoGapBetweenWindows ==
    [][\A t \in Threads :
         TriggerEnds(t)
         => ScheduledAfterDate(jobs'[th[t].job]) <= CoveredUpTo(t)]_vars

\* The folders of the repository, as list_channels and the listing without a
\* channel name them.
Folders(st) == {f.path.dir : f \in st}

\* C38: every entry list_transcripts(channel) returns can be read back:
\* get_transcript with the listed channel and the listed name (the file name
\* without '.json', the route of combine_transcripts) returns the record stored
\* at the listed path, for every video id and every title length.
C38_ListedIsReadable ==
    \A dir \in Folders(store) :
        \A e \in list_transcripts(store, dir, TRUE) :
            get_transcript(store, e.channel, e.name, TRUE)
              = get_file_sha(store, e.path)

====
